---- MODULE Spec2Model ----
(***************************************************************************)
(* Model of the index-and-chunk query engine of pao214/loki:               *)
(*   - pkg/storage/stores/shipper/util/queries.go                          *)
(*       DoParallelQueries, IndexDeduper, filteringBatchIter               *)
(*   - pkg/storage/chunk/util/parallel_chunk_fetch.go                      *)
(*       GetParallelChunks                                                 *)
(* Goroutines are processes with a program counter; unbuffered channels    *)
(* are rendezvous between a blocked sender and a blocked receiver.         *)
(***************************************************************************)
EXTENDS Integers, Sequences, FiniteSets, TLC

(***************************************************************************)
(* Program constants and model bounds                                      *)
(***************************************************************************)
\* queries.go:14
maxQueriesPerGoroutine == 100

\* longest query list handed to DoParallelQueries
MaxQueries == 250
\* raw entries the querier delivers during one DoParallelQueries call, over all
\* its batches (an empty batch counts as one)
MaxEntries == 2

\* longest chunk list handed to GetParallelChunks
MaxChunks == 3
\* largest maxParallel handed to GetParallelChunks
MaxParallel == 2
\* largest model.Time of a ChunkRef's Start and End
MaxTime == 2
\* longest query list handed to QueriesByTable
MaxInput == 3
\* DoParallelQueries calls that run side by side or one after the other
MaxCalls == 2
\* the largest shard count given to GetChunkRefs
MaxShardCount == 4
\* raw entries handed to one IndexDeduper, Callback after Callback
MaxRaw == 3
\* authors published on authorCh
MaxAuthors == 2
\* transactions of a bundle and of a block
MaxTxns == 3
\* the workers of other GetParallelChunks calls that use the shared pool
OtherWorkers == {"o1"}

Nil == "nil"
NoValue == "none"
\* ctx.Err() of a cancelled context, and the error a call returns for it
CtxCanceled == "context canceled"
\* the error the c-th MultiQueries call returns when it fails
ErrOf(c) == "err" \o ToString(c)
Hashes == {"h1", "h2"}
RangeValues == {"r1", "r2"}
Pairs == Hashes \X RangeValues

\* util_math.Min (pkg/util/math)
Min(a, b) == IF a < b THEN a ELSE b

\* chunk.IndexQuery: the fields this code reads
IndexQuery(t, h) == [TableName |-> t, HashValue |-> h]

\* the query lists handed to DoParallelQueries: n queries of one table whose
\* hash values alternate between "h1" and "h2"
MkQueries(n) ==
    [i \in 1..n |-> IndexQuery("t1", IF i % 2 = 1 THEN "h1" ELSE "h2")]

QueryLens == {n \in {0, 1, maxQueriesPerGoroutine, maxQueriesPerGoroutine + 1,
                     MaxQueries} : n <= MaxQueries}

\* raw batches: sequences of range values (a ReadBatch seen through its iterator)
SeqsUpTo(S, n) == UNION {[1..k -> S] : k \in 0..n}
Batches(n) == SeqsUpTo(RangeValues, n)
Cost(b) == IF Len(b) = 0 THEN 1 ELSE Len(b)

VARIABLES
    \* ---- DoParallelQueries ----
    numQueries,       \* len(queries) of the argument queries
    cpc,              \* position of the calling goroutine in DoParallelQueries
    di,               \* i of the dispatch loop (line 51)
    ci,               \* i of the collect loop (line 59)
    lastErr,          \* lastErr (line 58)
    ret,              \* the value DoParallelQueries returned, NoValue before
    mq,               \* the MultiQueries calls made so far, in call order
    seenRangeValues,  \* IndexDeduper.seenRangeValues
    numEntriesSent,   \* IndexDeduper.numEntriesSent
    mtx,              \* IndexDeduper.mtx, a sync.RWMutex: the calls holding
                      \* the shared lock and the call holding the exclusive
                      \* lock (0: none)
    \* history of the call, read only by the properties
    yielded,          \* pair -> times a filtered iterator's Next returned true on it
    offered,          \* the pairs held by the raw batches delivered so far
    stoppedEarly,     \* some downstream callback returned before the end of its batch
    recvd,            \* outcomes the coordinator received on errs, in order
    nbatch,           \* raw entries delivered so far, at most MaxEntries
    qctxErr,          \* ctx.Err() of the ctx given to DoParallelQueries
    \* ---- GetParallelChunks ----
    chunks,           \* the argument chunks
    maxParallel,      \* the argument maxParallel
    ctxErr,           \* ctx.Err()
    gpc,              \* position of the calling goroutine in GetParallelChunks
    wi,               \* i of the loop that starts the workers (line 42)
    gi,               \* i of the collect loop (line 59)
    result,           \* result (line 57)
    glastErr,         \* lastErr (line 58)
    gret,             \* what GetParallelChunks returned: [chunks, isNil, err],
                      \* isNil for a nil slice; NoReturn before
    producer,         \* the goroutine of lines 32-37: [pc, i]
    queueClosed,      \* close(queuedChunks) has happened
    workers,          \* the worker goroutines started so far, in start order
    decodeContextPool,\* the decode contexts lying in the pool
    nextCtx,          \* decode contexts made so far by the pool's New
    \* history of the call, read only by the properties
    invoked,          \* chunk index -> times decodeFn was called on it
    outcome,          \* chunk index -> "ok" or "err" once decodeFn returned
    errsRecvd,        \* the errors the coordinator received, in order
    entryErr,         \* ctx.Err() as the entry check read it, NoValue before
    \* ---- other GetParallelChunks calls ----
    others,           \* worker of another call -> [pc, ctx]
    \* ---- several DoParallelQueries calls ----
    dcalls,           \* call -> [pc, id, hash, batch, pos]: where the call is, the
                      \* IndexDeduper it made, its query's hash value, the batch
                      \* its callback was given and the iterator's position
    dedupers,         \* the IndexDeduper objects made so far, in order
    forwarded,        \* history: call -> the range values Next yielded, in order
    \* ---- QueriesByTable ----
    byTableIn,        \* the argument queries
    byTableOut,       \* [called, ret]: the map QueriesByTable returned
    \* ---- ChunkRef.Less ----
    lessR,            \* the receiver r of r.Less(x)
    lessX,            \* the argument x
    lessRet,          \* [called, ret]: what r.Less(x) returned
    \* ---- Index.GetChunkRefs ----
    indexSeries,      \* the fingerprints of the series the index holds
    shard,            \* the argument shard: [isNil, index, count]
    ipc,              \* position of the call in GetChunkRefs
    lookups,          \* history: index lookups executed so far
    refsRet,          \* what GetChunkRefs returned: [fps, err], NoRefs before
    \* ---- IndexDeduper.Callback, call after call ----
    cbpc,             \* position of the goroutine: outside Callback, in it,
                      \* in the downstream callback, back from it
    cbDeduper,        \* the IndexDeduper: [seenRangeValues, numEntriesSent]
    cbPos,            \* entries the underlying iterator has passed
    cbDsRet,          \* what the downstream callback returned last
    cbUsed,           \* raw entries delivered so far, at most MaxRaw
    cbLog,            \* history: per Callback call, the query and the raw
                      \* batch it was given, the times it called the
                      \* downstream callback and with what, and for every
                      \* entry passed whether Next yielded it
    cbRets,           \* history: the Callback calls that returned, and of
                      \* the last one what the downstream callback returned
                      \* and what Callback did
    \* ---- the services of cmd/monitor ----
    whitelistCfg,     \* cfg.Whitelist of RunMevBlockDetector: [isNil, vals]
    toPublish,        \* the authors the websocket client has to publish on
                      \* authorCh, in order
    published,        \* how many of them a receiver has taken from authorCh
    mevRet,           \* what RunMevBlockDetector returned: [called, err]
    mevpc,            \* the detector goroutine: not started, at its select,
                      \* exited
    mevTotal,         \* the counter polygon_mev_total
    stoppc,           \* the caller of the detector's stop function: not
                      \* called, blocked on stopCh <- struct{}{}, returned
    nodeHost,         \* cfg.Host of RunWebsocketClient: [isNil, host]
    wsRet,            \* how RunWebsocketClient ended: [called, outcome]
    \* ---- isBundleIncluded ----
    bundleTxns,       \* the argument bundleTxns
    blockTxns,        \* the argument blockTxns
    includedRet       \* [called, ret]: what isBundleIncluded returned

qvars == <<numQueries, cpc, di, ci, lastErr, ret, mq, seenRangeValues,
           numEntriesSent, mtx, yielded, offered, stoppedEarly, recvd, nbatch,
           qctxErr>>

gvars == <<chunks, maxParallel, ctxErr, gpc, wi, gi, result, glastErr, gret,
           producer, queueClosed, workers, decodeContextPool, nextCtx,
           invoked, outcome, errsRecvd, entryErr, others>>

dvars == <<dcalls, dedupers, forwarded>>
tvars == <<byTableIn, byTableOut>>
lvars == <<lessR, lessX, lessRet>>
ivars == <<indexSeries, shard, ipc, lookups, refsRet>>
cvars == <<cbpc, cbDeduper, cbPos, cbDsRet, cbUsed, cbLog, cbRets>>
mvars == <<whitelistCfg, toPublish, published, mevRet, mevpc, mevTotal, stoppc,
           nodeHost, wsRet>>
bvars == <<bundleTxns, blockTxns, includedRet>>
svars == <<mvars, bvars>>

\* the variables of the specifications other than Spec and SpecChunks
uvars == <<dvars, tvars, lvars, ivars, cvars, svars>>

vars == <<qvars, gvars, uvars>>

\* the argument queries; the list is never written, so the state keeps its
\* length
queries == MkQueries(numQueries)

(***************************************************************************)
(* IndexDeduper (queries.go:71-123)                                        *)
(***************************************************************************)
\* NewIndexDeduper: seenRangeValues: map[string]map[string]struct{}{}
NewSeenRangeValues == [h \in {} |-> {}]

\* the lookup i.seenRangeValues[hashValue][rangeValueStr] (lines 99, 110)
Lookup(hashValue, rangeValue) ==
    /\ hashValue \in DOMAIN seenRangeValues
    /\ rangeValue \in seenRangeValues[hashValue]

\* the optimistic check under the shared lock (line 99)
OptimisticCheck(hashValue, rangeValue) == Lookup(hashValue, rangeValue)

\* the re-check under the exclusive lock (line 110)
RecheckDropped(hashValue, rangeValue) == FALSE
Recheck(hashValue, rangeValue) == Lookup(hashValue, rangeValue)

\* lines 115-120: add the hashValue first if missing, then the rangeValue
AddRangeValue(hashValue, rangeValue) ==
    [h \in DOMAIN seenRangeValues \cup {hashValue} |->
        IF h = hashValue
        THEN (IF h \in DOMAIN seenRangeValues THEN seenRangeValues[h] ELSE {})
             \cup {rangeValue}
        ELSE seenRangeValues[h]]

\* i.mtx.RLock() (line 94) goes through while no goroutine holds the
\* exclusive lock
CanRLock == mtx.writer = 0

\* i.mtx.Lock() (line 106) goes through while no goroutine holds the lock,
\* shared or exclusive
CanLockDespiteReaders == mtx.writer = 0
CanLock == mtx.writer = 0 /\ mtx.readers = {}

(***************************************************************************)
(* One MultiQueries call: the goroutine running it, the slice of queries   *)
(* it was given (queries[lo:hi], 0-based, hi exclusive), and where it is.  *)
(*   "running"   inside MultiQueries, between two callbacks                *)
(*   "cb"        inside the downstream callback, which holds the           *)
(*               filteringBatch and may call Next or return                *)
(*   "loop"      in filteringBatchIter.Next, at the head of its loop       *)
(*   "rlocked"   in isSeen, holding the shared lock, lookup done           *)
(*   "wantlock"  in isSeen, shared lock released, before mtx.Lock          *)
(*   "locked"    in isSeen, holding the exclusive lock, re-check done      *)
(*   "send"      worker: MultiQueries returned, blocked on errs <- err     *)
(*   "exited"    the call is over (a worker's goroutine has ended)         *)
(***************************************************************************)
NoQuery == IndexQuery("", "")

NewCall(g, l, h) ==
    [gor |-> g, lo |-> l, hi |-> h, pc |-> "running", query |-> NoQuery,
     batch |-> <<>>, pos |-> 0, seen |-> FALSE, err |-> NoValue]

Calls == 1..Len(mq)

\* the call record once the downstream callback has returned to MultiQueries
EndCallback(r) ==
    [r EXCEPT !.pc = "running", !.query = NoQuery, !.batch = <<>>, !.pos = 0,
              !.seen = FALSE]

\* the entry the underlying iterator stands on
CurRange(c) == mq[c].batch[mq[c].pos]
CurPair(c) == <<mq[c].query.HashValue, CurRange(c)>>

QInit ==
    /\ numQueries \in QueryLens
    /\ cpc = "entry"
    /\ di = 0
    /\ ci = 0
    /\ lastErr = Nil
    /\ ret = NoValue
    /\ mq = <<>>
    /\ seenRangeValues = NewSeenRangeValues
    /\ numEntriesSent = 0
    /\ mtx = [readers |-> {}, writer |-> 0]
    /\ yielded = [p \in Pairs |-> 0]
    /\ offered = {}
    /\ stoppedEarly = FALSE
    /\ recvd = <<>>
    /\ nbatch = 0
    /\ qctxErr = Nil

(***************************************************************************)
(* DoParallelQueries, the calling goroutine (queries.go:34-67)             *)
(***************************************************************************)
\* line 35: len(queries) == 0
IsEmptyNever == FALSE
IsEmpty == numQueries = 0

\* line 47: len(queries) <= maxQueriesPerGoroutine
FitsOneCall == numQueries <= maxQueriesPerGoroutine

\* line 48: return tableQuerier.MultiQueries(ctx, queries, id.Callback)
SyncResultNil(err) == Nil
SyncResult(err) == err

\* lines 35-37: an empty query list returns nil at once
EntryEmpty ==
    /\ cpc = "entry"
    /\ IsEmpty
    /\ cpc' = "done"
    /\ ret' = Nil
    /\ UNCHANGED <<numQueries, di, ci, lastErr, mq, seenRangeValues,
                   numEntriesSent,
                   mtx, yielded, offered, stoppedEarly, recvd, nbatch>>
    /\ UNCHANGED <<gvars, uvars, qctxErr>>

\* lines 47-49: at most maxQueriesPerGoroutine queries: one call, in this goroutine
EntrySync ==
    /\ cpc = "entry"
    /\ ~IsEmpty
    /\ FitsOneCall
    /\ mq' = Append(mq, NewCall("caller", 0, numQueries))
    /\ cpc' = "sync"
    /\ UNCHANGED <<numQueries, di, ci, lastErr, ret, seenRangeValues,
                   numEntriesSent,
                   mtx, yielded, offered, stoppedEarly, recvd, nbatch>>
    /\ UNCHANGED <<gvars, uvars, qctxErr>>

\* line 51, i := 0
EntryFanOut ==
    /\ cpc = "entry"
    /\ ~IsEmpty
    /\ ~FitsOneCall
    /\ cpc' = "dispatch"
    /\ di' = 0
    /\ UNCHANGED <<numQueries, ci, lastErr, ret, mq, seenRangeValues,
                   numEntriesSent,
                   mtx, yielded, offered, stoppedEarly, recvd, nbatch>>
    /\ UNCHANGED <<gvars, uvars, qctxErr>>

\* line 52: q := queries[i:util_math.Min(i+maxQueriesPerGoroutine, len(queries))]
SliceEndWhole(i) == numQueries
SliceEnd(i) == Min(i + maxQueriesPerGoroutine, numQueries)

\* the loop condition of lines 51 and 59
LoopCond(i) == i < numQueries

\* lines 51-56: one iteration of the dispatch loop starts one worker goroutine
Dispatch ==
    /\ cpc = "dispatch"
    /\ LoopCond(di)
    /\ mq' = Append(mq, NewCall("worker", di, SliceEnd(di)))
    /\ di' = di + maxQueriesPerGoroutine
    /\ UNCHANGED <<numQueries, cpc, ci, lastErr, ret, seenRangeValues,
                   numEntriesSent,
                   mtx, yielded, offered, stoppedEarly, recvd, nbatch>>
    /\ UNCHANGED <<gvars, uvars, qctxErr>>

\* line 51 exit, lines 58-59: var lastErr error; i := 0
DispatchDone ==
    /\ cpc = "dispatch"
    /\ ~LoopCond(di)
    /\ cpc' = "collect"
    /\ ci' = 0
    /\ lastErr' = Nil
    /\ UNCHANGED <<numQueries, di, ret, mq, seenRangeValues, numEntriesSent,
                   mtx, yielded, offered, stoppedEarly, recvd, nbatch>>
    /\ UNCHANGED <<gvars, uvars, qctxErr>>

\* lines 61-63: if err != nil { lastErr = err }
KeepFirstErr(old, err) == IF err # Nil /\ old = Nil THEN err ELSE old
OverwriteErr(old, err) == err
MergeErr(old, err) == IF err # Nil THEN err ELSE old

\* the collect loop goes on while this holds (line 59)
CollectCondFailFast == LoopCond(ci) /\ lastErr = Nil
CollectCond == LoopCond(ci)

\* lines 59-64: err := <-errs, a rendezvous with worker c blocked on errs <- err
Collect(c) ==
    /\ cpc = "collect"
    /\ CollectCond
    /\ mq[c].pc = "send"
    /\ lastErr' = MergeErr(lastErr, mq[c].err)
    /\ recvd' = Append(recvd, mq[c].err)
    /\ ci' = ci + maxQueriesPerGoroutine
    /\ mq' = [mq EXCEPT ![c].pc = "exited", ![c].err = NoValue]
    /\ UNCHANGED <<numQueries, cpc, di, ret, seenRangeValues, numEntriesSent,
                   mtx, yielded, offered, stoppedEarly, nbatch>>
    /\ UNCHANGED <<gvars, uvars, qctxErr>>

\* line 66: return lastErr
CollectDone ==
    /\ cpc = "collect"
    /\ ~CollectCond
    /\ cpc' = "done"
    /\ ret' = lastErr
    /\ UNCHANGED <<numQueries, di, ci, lastErr, mq, seenRangeValues,
                   numEntriesSent,
                   mtx, yielded, offered, stoppedEarly, recvd, nbatch>>
    /\ UNCHANGED <<gvars, uvars, qctxErr>>

(***************************************************************************)
(* TableQuerier.MultiQueries (queries.go:16-18), an external collaborator: *)
(* it calls the callback once per result batch of one of its queries and   *)
(* returns nil or an error.                                                *)
(***************************************************************************)
\* the queries of call c: queries[lo:hi]
SliceQueries(c) == {queries[i] : i \in (mq[c].lo + 1)..mq[c].hi}

\* lines 85-91 and 133-139: Callback wraps the raw batch in a filteringBatch
\* and Iterator wraps its iterator; neither reads an entry, so the seen-set
\* stays as it is
WrapBatchEager(hashValue, batch) ==
    [h \in DOMAIN seenRangeValues \cup {hashValue} |->
        IF h = hashValue
        THEN (IF h \in DOMAIN seenRangeValues THEN seenRangeValues[h] ELSE {})
             \cup {batch[k] : k \in 1..Len(batch)}
        ELSE seenRangeValues[h]]
WrapBatch(hashValue, batch) == seenRangeValues

\* IndexDeduper.Callback (lines 85-91): the downstream callback is called with
\* the query and a filteringBatch around the raw batch
DeliverBatch(c) ==
    /\ mq[c].pc = "running"
    /\ nbatch < MaxEntries
    /\ \E q \in SliceQueries(c), b \in Batches(MaxEntries - nbatch) :
         /\ mq' = [mq EXCEPT ![c].pc = "cb", ![c].query = q,
                             ![c].batch = b, ![c].pos = 0]
         /\ offered' = offered \cup {<<q.HashValue, b[k]>> : k \in 1..Len(b)}
         /\ nbatch' = nbatch + Cost(b)
         /\ seenRangeValues' = WrapBatch(q.HashValue, b)
    /\ UNCHANGED <<numQueries, cpc, di, ci, lastErr, ret,
                   numEntriesSent, mtx, yielded, stoppedEarly, recvd>>
    /\ UNCHANGED <<gvars, uvars, qctxErr>>

\* what MultiQueries may return: nil, an error of its own, or, once the ctx
\* it was given (lines 48, 54) is cancelled, the cancellation error
CallErrs(c) == {Nil, ErrOf(c)} \cup (IF qctxErr # Nil THEN {qctxErr} ELSE {})

\* MultiQueries returns err. In the calling goroutine (line 48) that is the
\* return value of DoParallelQueries; in a worker (line 54) it is sent on errs.
MultiQueriesReturns(c) ==
    /\ mq[c].pc = "running"
    /\ \E e \in CallErrs(c) :
         IF mq[c].gor = "caller"
         THEN /\ mq' = [mq EXCEPT ![c].pc = "exited", ![c].err = e]
              /\ cpc' = "done"
              /\ ret' = SyncResult(e)
         ELSE /\ mq' = [mq EXCEPT ![c].pc = "send", ![c].err = e]
              /\ UNCHANGED <<cpc, ret>>
    /\ UNCHANGED <<numQueries, di, ci, lastErr, seenRangeValues, numEntriesSent,
                   mtx, yielded, offered, stoppedEarly, recvd, nbatch>>
    /\ UNCHANGED <<gvars, uvars, qctxErr>>

(***************************************************************************)
(* The downstream callback and filteringBatchIter.Next (lines 147-157)     *)
(***************************************************************************)
\* The head of Next's loop: f.ReadBatchIterator.Next() moves to the next raw
\* entry, and isSeen takes the shared lock and looks the pair up (lines 94-99);
\* the lookup cannot change while the shared lock is held. With no entry left
\* Next returns false (line 156) and the downstream callback, at the end of its
\* batch, returns to MultiQueries.
LoopHead(c) ==
    IF mq[c].pos < Len(mq[c].batch)
    THEN /\ CanRLock
         /\ mtx' = [mtx EXCEPT !.readers = @ \cup {c}]
         /\ mq' = [mq EXCEPT ![c].pc = "rlocked", ![c].pos = @ + 1,
                     ![c].seen = OptimisticCheck(mq[c].query.HashValue,
                                                 mq[c].batch[mq[c].pos + 1])]
    ELSE /\ mq' = [mq EXCEPT ![c] = EndCallback(mq[c])]
         /\ UNCHANGED mtx

\* the downstream callback calls Next on the filtered iterator
CallbackNext(c) ==
    /\ mq[c].pc = "cb"
    /\ mq[c].pos < Len(mq[c].batch)
    /\ LoopHead(c)
    /\ UNCHANGED <<numQueries, cpc, di, ci, lastErr, ret, seenRangeValues,
                   numEntriesSent, yielded, offered, stoppedEarly, recvd, nbatch>>
    /\ UNCHANGED <<gvars, uvars, qctxErr>>

\* line 150: continue
NextContinue(c) ==
    /\ mq[c].pc = "loop"
    /\ LoopHead(c)
    /\ UNCHANGED <<numQueries, cpc, di, ci, lastErr, ret, seenRangeValues,
                   numEntriesSent, yielded, offered, stoppedEarly, recvd, nbatch>>
    /\ UNCHANGED <<gvars, uvars, qctxErr>>

\* the downstream callback returns to MultiQueries, at the end of the batch or
\* before it
CallbackReturns(c) ==
    /\ mq[c].pc = "cb"
    /\ stoppedEarly' = (stoppedEarly \/ mq[c].pos < Len(mq[c].batch))
    /\ mq' = [mq EXCEPT ![c] = EndCallback(mq[c])]
    /\ UNCHANGED <<numQueries, cpc, di, ci, lastErr, ret, seenRangeValues,
                   numEntriesSent, mtx, yielded, offered, recvd, nbatch>>
    /\ UNCHANGED <<gvars, uvars, qctxErr>>

\* lines 100 and 103: id.mtx.RUnlock() on either branch of the lookup
RUnlockKeeps(readers, c) == readers
RUnlock(readers, c) == readers \ {c}

\* lines 99-104: RUnlock, then return true (seen) or go on to mtx.Lock
IsSeenRUnlock(c) ==
    /\ mq[c].pc = "rlocked"
    /\ mtx' = [mtx EXCEPT !.readers = RUnlock(@, c)]
    /\ mq' = [mq EXCEPT ![c].pc = IF mq[c].seen THEN "loop" ELSE "wantlock"]
    /\ UNCHANGED <<numQueries, cpc, di, ci, lastErr, ret, seenRangeValues,
                   numEntriesSent, yielded, offered, stoppedEarly, recvd, nbatch>>
    /\ UNCHANGED <<gvars, uvars, qctxErr>>

\* lines 106-119: mtx.Lock, re-check, and unless the pair is there by now,
\* record it
IsSeenLock(c) ==
    /\ mq[c].pc = "wantlock"
    /\ CanLock
    /\ mtx' = [mtx EXCEPT !.writer = c]
    /\ IF Recheck(mq[c].query.HashValue, CurRange(c))
       THEN /\ mq' = [mq EXCEPT ![c].pc = "locked", ![c].seen = TRUE]
            /\ UNCHANGED seenRangeValues
       ELSE /\ mq' = [mq EXCEPT ![c].pc = "locked", ![c].seen = FALSE]
            /\ seenRangeValues' = AddRangeValue(mq[c].query.HashValue, CurRange(c))
    /\ UNCHANGED <<numQueries, cpc, di, ci, lastErr, ret, numEntriesSent,
                   yielded, offered, stoppedEarly, recvd, nbatch>>
    /\ UNCHANGED <<gvars, uvars, qctxErr>>

\* lines 110-120: numEntriesSent++ is reached only when the re-check did not
\* find the pair
CountSentAlways(n, seen) == n + 1
CountSent(n, seen) == IF seen THEN n ELSE n + 1

\* lines 120-122 and 107: the count, then the deferred mtx.Unlock; isSeen
\* returns. If it returns true Next continues (line 150), else Next returns
\* true (line 153): the entry is yielded to the downstream callback.
IsSeenUnlock(c) ==
    /\ mq[c].pc = "locked"
    /\ mtx' = [mtx EXCEPT !.writer = 0]
    /\ IF mq[c].seen
       THEN /\ mq' = [mq EXCEPT ![c].pc = "loop"]
            /\ UNCHANGED yielded
       ELSE /\ mq' = [mq EXCEPT ![c].pc = "cb"]
            /\ yielded' = [yielded EXCEPT ![CurPair(c)] = @ + 1]
    /\ numEntriesSent' = CountSent(numEntriesSent, mq[c].seen)
    /\ UNCHANGED <<numQueries, cpc, di, ci, lastErr, ret, seenRangeValues,
                   offered, stoppedEarly, recvd, nbatch>>
    /\ UNCHANGED <<gvars, uvars, qctxErr>>

\* the ctx of the call (line 34) is cancelled or times out, at any moment
\* before the call returns
QCtxCancel ==
    /\ cpc # "done"
    /\ qctxErr = Nil
    /\ qctxErr' = CtxCanceled
    /\ UNCHANGED <<numQueries, cpc, di, ci, lastErr, ret, mq, seenRangeValues,
                   numEntriesSent, mtx, yielded, offered, stoppedEarly, recvd,
                   nbatch>>
    /\ UNCHANGED <<gvars, uvars>>

QNext ==
    \/ EntryEmpty
    \/ EntrySync
    \/ EntryFanOut
    \/ Dispatch
    \/ DispatchDone
    \/ CollectDone
    \/ \E c \in Calls : Collect(c)
    \/ \E c \in Calls : DeliverBatch(c)
    \/ \E c \in Calls : MultiQueriesReturns(c)
    \/ \E c \in Calls : CallbackNext(c)
    \/ \E c \in Calls : NextContinue(c)
    \/ \E c \in Calls : CallbackReturns(c)
    \/ \E c \in Calls : IsSeenRUnlock(c)
    \/ \E c \in Calls : IsSeenLock(c)
    \/ \E c \in Calls : IsSeenUnlock(c)

(***************************************************************************)
(* GetParallelChunks (parallel_chunk_fetch.go:21-75)                       *)
(* A chunk is named by its place in the input; the chunk decodeFn makes of *)
(* chunks[i] is Decoded(chunks[i]) and the error it fails with ErrChunk.   *)
(***************************************************************************)
Chunk(i) == <<"chunk", i>>
Decoded(c) == <<"decoded", c[2]>>
ErrChunk(c) == "err" \o ToString(c[2])

\* the call has not returned
NoReturn == [chunks |-> <<>>, isNil |-> FALSE, err |-> NoValue]

ChunkLists == {[i \in 1..n |-> Chunk(i)] : n \in 0..MaxChunks}

\* lines 77-82
min(a, b) == IF a < b THEN a ELSE b

\* a worker goroutine (lines 43-54):
\*   "get"     started, before decodeContextPool.Get
\*   "recv"    in the range over queuedChunks, waiting for a chunk
\*   "decode"  decodeFn is running on c with the decode context ctx
\*   "send"    decodeFn returned out; blocked sending it on processedChunks or errors
\*   "exited"  the decode context is back in the pool
\* NoChunk: the worker has no chunk in hand
NoChunk == <<"chunk", 0>>
NewWorker == [pc |-> "get", ctx |-> 0, c |-> NoChunk, out |-> NoValue]
Workers == 1..Len(workers)

\* a worker goroutine of another GetParallelChunks call, seen at the pool:
\*   "get"     before decodeContextPool.Get
\*   "range"   in its range over that call's queue, holding the context ctx
\*   "exited"  the decode context is back in the pool
OtherWorker == [pc |-> "get", ctx |-> 0]

GInit ==
    /\ chunks \in ChunkLists
    /\ maxParallel \in 0..MaxParallel
    /\ ctxErr \in {Nil, CtxCanceled}
    /\ gpc = "entry"
    /\ wi = 0
    /\ gi = 0
    /\ result = <<>>
    /\ glastErr = Nil
    /\ gret = NoReturn
    /\ producer = [pc |-> "notstarted", i |-> 1]
    /\ queueClosed = FALSE
    /\ workers = <<>>
    /\ decodeContextPool = {}
    /\ nextCtx = 0
    /\ invoked = [i \in 1..Len(chunks) |-> 0]
    /\ outcome = [i \in 1..Len(chunks) |-> NoValue]
    /\ errsRecvd = <<>>
    /\ entryErr = NoValue
    /\ others = [k \in OtherWorkers |-> OtherWorker]

\* lines 26-28: if ctx.Err() != nil { return nil, ctx.Err() }
EntryCheckSkipped == FALSE
EntryCheck == ctxErr # Nil

GEntryCanceled ==
    /\ gpc = "entry"
    /\ EntryCheck
    /\ gret' = [chunks |-> <<>>, isNil |-> TRUE, err |-> ctxErr]
    /\ gpc' = "done"
    /\ UNCHANGED <<chunks, maxParallel, ctxErr, wi, gi, result, glastErr,
                   producer, queueClosed, workers, decodeContextPool, nextCtx,
                   invoked, outcome, errsRecvd>>
    /\ entryErr' = ctxErr
    /\ UNCHANGED <<qvars, uvars, others>>

\* lines 30-42: the channels are made, the producer goroutine is started, i := 0
GEntry ==
    /\ gpc = "entry"
    /\ ~EntryCheck
    /\ producer' = [pc |-> "send", i |-> 1]
    /\ gpc' = "spawn"
    /\ wi' = 0
    /\ entryErr' = ctxErr
    /\ UNCHANGED <<chunks, maxParallel, ctxErr, gi, result, glastErr, gret,
                   queueClosed, workers, decodeContextPool, nextCtx,
                   invoked, outcome, errsRecvd>>
    /\ UNCHANGED <<qvars, uvars, others>>

\* the number of workers started (line 42)
NumWorkersUnbounded == Len(chunks)
NumWorkers == min(maxParallel, Len(chunks))

\* lines 42-55: one iteration starts one worker goroutine
GSpawn ==
    /\ gpc = "spawn"
    /\ wi < NumWorkers
    /\ workers' = Append(workers, NewWorker)
    /\ wi' = wi + 1
    /\ UNCHANGED <<chunks, maxParallel, ctxErr, gpc, gi, result, glastErr, gret,
                   producer, queueClosed, decodeContextPool, nextCtx,
                   invoked, outcome, errsRecvd, entryErr>>
    /\ UNCHANGED <<qvars, uvars, others>>

\* lines 57-59: result := make(...); var lastErr error; i := 0
GSpawnDone ==
    /\ gpc = "spawn"
    /\ ~(wi < NumWorkers)
    /\ gpc' = "collect"
    /\ result' = <<>>
    /\ glastErr' = Nil
    /\ gi' = 0
    /\ UNCHANGED <<chunks, maxParallel, ctxErr, wi, gret,
                   producer, queueClosed, workers, decodeContextPool, nextCtx,
                   invoked, outcome, errsRecvd, entryErr>>
    /\ UNCHANGED <<qvars, uvars, others>>

\* line 62: result = append(result, chunk)
AppendResultFront(res, c) == <<c>> \o res
AppendResultDropOnError(res, c) == IF glastErr # Nil THEN <<>> ELSE Append(res, c)
AppendResult(res, c) == Append(res, c)

\* line 64: lastErr = err
KeepFirstChunkErr(old, err) == IF old = Nil THEN err ELSE old
SetLastErr(old, err) == err

\* the collect loop goes on while this holds (line 59)
GCollectCondFailFast == gi < Len(chunks) /\ glastErr = Nil
GCollectCondUntilCancel == gi < Len(chunks) /\ ctxErr = Nil
GCollectCond == gi < Len(chunks)

\* lines 45-52: a worker that has sent its outcome, a chunk or an error, goes
\* on with its range over queuedChunks
AfterSendReturnOnErr(o) == IF o = "err" THEN "exited" ELSE "recv"
AfterSend(o) == "recv"

\* lines 59-66: the select receives from worker w, which is blocked sending a
\* decoded chunk on processedChunks or an error on errors
GCollect(w) ==
    /\ gpc = "collect"
    /\ GCollectCond
    /\ workers[w].pc = "send"
    /\ IF workers[w].out = "ok"
       THEN /\ result' = AppendResult(result, Decoded(workers[w].c))
            /\ UNCHANGED <<glastErr, errsRecvd>>
       ELSE /\ glastErr' = SetLastErr(glastErr, ErrChunk(workers[w].c))
            /\ errsRecvd' = Append(errsRecvd, ErrChunk(workers[w].c))
            /\ UNCHANGED result
    /\ gi' = gi + 1
    /\ workers' = [workers EXCEPT ![w].pc = AfterSend(workers[w].out),
                                  ![w].c = NoChunk, ![w].out = NoValue]
    /\ UNCHANGED <<chunks, maxParallel, ctxErr, gpc, wi, gret,
                   producer, queueClosed, decodeContextPool, nextCtx,
                   invoked, outcome, entryErr>>
    /\ UNCHANGED <<qvars, uvars, others>>

\* lines 68-74: return result, lastErr
GReturn ==
    /\ gpc = "collect"
    /\ ~GCollectCond
    /\ gret' = [chunks |-> result, isNil |-> FALSE, err |-> glastErr]
    /\ gpc' = "done"
    /\ UNCHANGED <<chunks, maxParallel, ctxErr, wi, gi, result, glastErr,
                   producer, queueClosed, workers, decodeContextPool, nextCtx,
                   invoked, outcome, errsRecvd, entryErr>>
    /\ UNCHANGED <<qvars, uvars, others>>

\* sync.Pool.Get removes the context it hands out from the pool (line 44)
PoolGetKeeps(pool, d) == pool
PoolGet(pool, d) == pool \ {d}

\* sync.Pool.Put adds the context to the pool (line 53)
PoolPut(pool, d) == pool \cup {d}

\* line 44: decodeContextPool.Get() hands out a pooled context or a new one
WorkerGet(w) ==
    /\ workers[w].pc = "get"
    /\ \/ \E d \in decodeContextPool :
            /\ decodeContextPool' = PoolGet(decodeContextPool, d)
            /\ workers' = [workers EXCEPT ![w].pc = "recv", ![w].ctx = d]
            /\ UNCHANGED nextCtx
       \/ /\ nextCtx' = nextCtx + 1
          /\ workers' = [workers EXCEPT ![w].pc = "recv", ![w].ctx = nextCtx + 1]
          /\ UNCHANGED decodeContextPool
    /\ UNCHANGED <<chunks, maxParallel, ctxErr, gpc, wi, gi, result,
                   glastErr, gret,
                   producer, queueClosed, invoked, outcome, errsRecvd, entryErr>>
    /\ UNCHANGED <<qvars, uvars, others>>

\* lines 33-34: for _, c := range chunks { queuedChunks <- c }: the i-th
\* chunk the producer sends
QueuedChunkReversed(i) == chunks[Len(chunks) + 1 - i]
QueuedChunk(i) == chunks[i]

\* lines 34 and 45-46: queuedChunks <- c meets worker w's receive, and the
\* worker calls decodeFn on the chunk
WorkerTake(w) ==
    /\ workers[w].pc = "recv"
    /\ producer.pc = "send"
    /\ producer.i <= Len(chunks)
    /\ workers' = [workers EXCEPT ![w].pc = "decode",
                                  ![w].c = QueuedChunk(producer.i)]
    /\ invoked' = [invoked EXCEPT ![producer.i] = @ + 1]
    /\ producer' = [producer EXCEPT !.i = @ + 1]
    /\ UNCHANGED <<chunks, maxParallel, ctxErr, gpc, wi, gi, result,
                   glastErr, gret,
                   queueClosed, decodeContextPool, nextCtx, outcome,
                   errsRecvd, entryErr>>
    /\ UNCHANGED <<qvars, uvars, others>>

\* line 36: close(queuedChunks); the producer goroutine ends
ProducerClose ==
    /\ producer.pc = "send"
    /\ producer.i > Len(chunks)
    /\ queueClosed' = TRUE
    /\ producer' = [producer EXCEPT !.pc = "exited"]
    /\ UNCHANGED <<chunks, maxParallel, ctxErr, gpc, wi, gi, result,
                   glastErr, gret,
                   workers, decodeContextPool, nextCtx, invoked, outcome, errsRecvd, entryErr>>
    /\ UNCHANGED <<qvars, uvars, others>>

\* lines 46-51: decodeFn returns a chunk or an error
WorkerDecoded(w) ==
    /\ workers[w].pc = "decode"
    /\ \E o \in {"ok", "err"} :
         /\ workers' = [workers EXCEPT ![w].pc = "send", ![w].out = o]
         /\ outcome' = [outcome EXCEPT ![workers[w].c[2]] = o]
    /\ UNCHANGED <<chunks, maxParallel, ctxErr, gpc, wi, gi, result,
                   glastErr, gret,
                   producer, queueClosed, decodeContextPool, nextCtx,
                   invoked, errsRecvd, entryErr>>
    /\ UNCHANGED <<qvars, uvars, others>>

\* lines 45 and 53: the range ends on the closed queue; decodeContextPool.Put
WorkerPut(w) ==
    /\ workers[w].pc = "recv"
    /\ queueClosed
    /\ decodeContextPool' = PoolPut(decodeContextPool, workers[w].ctx)
    /\ workers' = [workers EXCEPT ![w].pc = "exited", ![w].ctx = 0]
    /\ UNCHANGED <<chunks, maxParallel, ctxErr, gpc, wi, gi, result,
                   glastErr, gret,
                   producer, queueClosed, nextCtx, invoked, outcome, errsRecvd, entryErr>>
    /\ UNCHANGED <<qvars, uvars, others>>

\* ctx is cancelled or times out while the call is under way
CtxCancel ==
    /\ gpc \in {"spawn", "collect"}
    /\ ctxErr = Nil
    /\ ctxErr' = CtxCanceled
    /\ UNCHANGED <<chunks, maxParallel, gpc, wi, gi, result, glastErr, gret,
                   producer, queueClosed, workers, decodeContextPool, nextCtx,
                   invoked, outcome, errsRecvd, entryErr>>
    /\ UNCHANGED <<qvars, uvars, others>>

\* line 44 in worker k of another GetParallelChunks call: the pool is a
\* package variable (lines 14-18), shared by every call of the process
OtherWorkerGet(k) ==
    /\ others[k].pc = "get"
    /\ \/ \E d \in decodeContextPool :
            /\ decodeContextPool' = PoolGet(decodeContextPool, d)
            /\ others' = [others EXCEPT ![k] = [pc |-> "range", ctx |-> d]]
            /\ UNCHANGED nextCtx
       \/ /\ nextCtx' = nextCtx + 1
          /\ others' = [others EXCEPT ![k] = [pc |-> "range", ctx |-> nextCtx + 1]]
          /\ UNCHANGED decodeContextPool
    /\ UNCHANGED <<chunks, maxParallel, ctxErr, gpc, wi, gi, result,
                   glastErr, gret, producer, queueClosed, workers,
                   invoked, outcome, errsRecvd, entryErr>>
    /\ UNCHANGED <<qvars, uvars>>

\* lines 45 and 53 in worker k of another GetParallelChunks call: that call's
\* queue is closed and drained
OtherWorkerPut(k) ==
    /\ others[k].pc = "range"
    /\ decodeContextPool' = PoolPut(decodeContextPool, others[k].ctx)
    /\ others' = [others EXCEPT ![k] = [pc |-> "exited", ctx |-> 0]]
    /\ UNCHANGED <<chunks, maxParallel, ctxErr, gpc, wi, gi, result,
                   glastErr, gret, producer, queueClosed, workers, nextCtx,
                   invoked, outcome, errsRecvd, entryErr>>
    /\ UNCHANGED <<qvars, uvars>>

GNext ==
    \/ GEntryCanceled
    \/ CtxCancel
    \/ GEntry
    \/ GSpawn
    \/ GSpawnDone
    \/ GReturn
    \/ ProducerClose
    \/ \E w \in Workers : GCollect(w)
    \/ \E w \in Workers : WorkerGet(w)
    \/ \E w \in Workers : WorkerTake(w)
    \/ \E w \in Workers : WorkerDecoded(w)
    \/ \E w \in Workers : WorkerPut(w)

(***************************************************************************)
(* Several DoParallelQueries calls (queries.go:34-49, 78-123, 147-157).    *)
(* Each call has at most maxQueriesPerGoroutine queries, so MultiQueries   *)
(* runs in the calling goroutine with the call's id.Callback; it gives the *)
(* callback one batch of the call's query. A deduper is then used by one   *)
(* goroutine, and a whole isSeen call is one step.                         *)
(*   "entry"  before the call                                              *)
(*   "made"   id := NewIndexDeduper(callback) is done (line 40)            *)
(*   "cb"     the downstream callback holds the filteringBatch             *)
(*   "done"   DoParallelQueries has returned                               *)
(***************************************************************************)
DedupCalls == 1..MaxCalls

\* lines 78-83: NewIndexDeduper
NewIndexDeduper == [seenRangeValues |-> NewSeenRangeValues, numEntriesSent |-> 0]

\* line 40: id is the IndexDeduper NewIndexDeduper has just made
IdOfCallFirstMade(made) == 1
IdOfCall(made) == made

\* lines 99 and 110 on the deduper d
SeenIn(d, hashValue, rangeValue) ==
    /\ hashValue \in DOMAIN d.seenRangeValues
    /\ rangeValue \in d.seenRangeValues[hashValue]

\* lines 115-120 on the deduper d
RecordIn(d, hashValue, rangeValue) ==
    [seenRangeValues |->
        [h \in DOMAIN d.seenRangeValues \cup {hashValue} |->
            IF h = hashValue
            THEN (IF h \in DOMAIN d.seenRangeValues
                  THEN d.seenRangeValues[h] ELSE {}) \cup {rangeValue}
            ELSE d.seenRangeValues[h]],
     numEntriesSent |-> d.numEntriesSent + 1]

NewDedupCall == [pc |-> "entry", id |-> 0, hash |-> "", batch |-> <<>>, pos |-> 0]

\* raw entries the batches delivered so far hold, at most MaxEntries
RECURSIVE EntriesOf(_)
EntriesOf(S) ==
    IF S = {} THEN 0
    ELSE LET k == CHOOSE j \in S : TRUE
         IN  Len(dcalls[k].batch) + EntriesOf(S \ {k})

DInit ==
    /\ dcalls = [k \in DedupCalls |-> NewDedupCall]
    /\ dedupers = <<>>
    /\ forwarded = [k \in DedupCalls |-> <<>>]

\* lines 34-45: a call with 1..maxQueriesPerGoroutine queries makes its deduper
CallEntry(k) ==
    /\ dcalls[k].pc = "entry"
    /\ dedupers' = Append(dedupers, NewIndexDeduper)
    /\ dcalls' = [dcalls EXCEPT ![k].pc = "made",
                                ![k].id = IdOfCall(Len(dedupers) + 1)]
    /\ UNCHANGED forwarded
    /\ UNCHANGED <<qvars, gvars, tvars, lvars, ivars, cvars, svars>>

\* lines 47-48 and 85-91: MultiQueries(ctx, queries, id.Callback) calls the
\* callback with a batch of a query; the downstream callback gets the
\* filteringBatch
CallCallback(k) ==
    /\ dcalls[k].pc = "made"
    /\ EntriesOf(DedupCalls) < MaxEntries
    /\ \E h \in Hashes, b \in Batches(MaxEntries - EntriesOf(DedupCalls)) :
         /\ Len(b) > 0
         /\ dcalls' = [dcalls EXCEPT ![k].pc = "cb", ![k].hash = h,
                                     ![k].batch = b, ![k].pos = 0]
    /\ UNCHANGED <<dedupers, forwarded>>
    /\ UNCHANGED <<qvars, gvars, tvars, lvars, ivars, cvars, svars>>

\* lines 147-153 and 93-123: Next advances the underlying iterator by one
\* entry and asks the call's deduper; a seen entry is skipped (line 150), a
\* new one is recorded, counted and yielded (line 153)
CallNext(k) ==
    /\ dcalls[k].pc = "cb"
    /\ dcalls[k].pos < Len(dcalls[k].batch)
    /\ LET id == dcalls[k].id
           r == dcalls[k].batch[dcalls[k].pos + 1]
       IN  IF SeenIn(dedupers[id], dcalls[k].hash, r)
           THEN UNCHANGED <<dedupers, forwarded>>
           ELSE /\ dedupers' = [dedupers EXCEPT
                                  ![id] = RecordIn(@, dcalls[k].hash, r)]
                /\ forwarded' = [forwarded EXCEPT ![k] = Append(@, r)]
    /\ dcalls' = [dcalls EXCEPT ![k].pos = @ + 1]
    /\ UNCHANGED <<qvars, gvars, tvars, lvars, ivars, cvars, svars>>

\* the downstream callback returns, at the end of the batch or before it;
\* MultiQueries and DoParallelQueries return (lines 48 and 41-45)
CallReturn(k) ==
    /\ dcalls[k].pc = "cb"
    /\ dcalls' = [dcalls EXCEPT ![k].pc = "done"]
    /\ UNCHANGED <<dedupers, forwarded>>
    /\ UNCHANGED <<qvars, gvars, tvars, lvars, ivars, cvars, svars>>

DNext ==
    \/ \E k \in DedupCalls : CallEntry(k)
    \/ \E k \in DedupCalls : CallCallback(k)
    \/ \E k \in DedupCalls : CallNext(k)
    \/ \E k \in DedupCalls : CallReturn(k)

(***************************************************************************)
(* QueriesByTable (queries.go:20-32)                                       *)
(***************************************************************************)
Tables == {"t1", "t2"}

\* the query lists handed to QueriesByTable
TableQueries == {IndexQuery(t, h) : t \in Tables, h \in Hashes}
QueryLists == SeqsUpTo(TableQueries, MaxInput)

\* line 22: make(map[string][]chunk.IndexQuery)
EmptyMap == [t \in {} |-> <<>>]

\* line 28: append(queriesByTable[query.TableName], query)
AppendQueryKeepLast(list, query) == <<query>>
AppendQueryFront(list, query) == <<query>> \o list
AppendQuery(list, query) == Append(list, query)

\* lines 24-28, one iteration of the loop: the table's list is made if it is
\* missing, then the query is appended to it
AddQuery(queriesByTable, query) ==
    LET withKey ==
          IF query.TableName \in DOMAIN queriesByTable
          THEN queriesByTable
          ELSE [t \in DOMAIN queriesByTable \cup {query.TableName} |->
                  IF t \in DOMAIN queriesByTable
                  THEN queriesByTable[t] ELSE <<>>]
    IN  [withKey EXCEPT ![query.TableName] = AppendQuery(@, query)]

\* lines 23-29: the loop over the queries from the i-th one on
RECURSIVE GroupFrom(_, _, _)
GroupFrom(queriesByTable, qs, i) ==
    IF i > Len(qs) THEN queriesByTable
    ELSE GroupFrom(AddQuery(queriesByTable, qs[i]), qs, i + 1)

\* lines 21-32
QueriesByTable(qs) == GroupFrom(EmptyMap, qs, 1)

\* QueriesByTable has not been called
NotGrouped == [called |-> FALSE, ret |-> EmptyMap]

TInit ==
    /\ byTableIn \in QueryLists
    /\ byTableOut = NotGrouped

CallQueriesByTable ==
    /\ ~byTableOut.called
    /\ byTableOut' = [called |-> TRUE, ret |-> QueriesByTable(byTableIn)]
    /\ UNCHANGED byTableIn
    /\ UNCHANGED <<qvars, gvars, dvars, lvars, ivars, cvars, svars>>

TNext == CallQueriesByTable

(***************************************************************************)
(* ChunkRef.Less (index.go:17-31)                                          *)
(***************************************************************************)
Users == {"u1", "u2"}
Fingerprints == {1, 2}
Checksums == {0, 1}
\* model.Time is an int64: times before the epoch are negative
Times == (-1)..MaxTime

\* lines 17-22: type ChunkRef
ChunkRefs ==
    [User : Users, Fingerprint : Fingerprints, Start : Times, End : Times,
     Checksum : Checksums]

\* lines 26-31: func (r ChunkRef) Less(x ChunkRef) bool
LessStrict(r, x) ==
    IF r.Start # x.Start THEN r.Start < x.Start ELSE r.End < x.End
LessEndFirst(r, x) ==
    IF r.End # x.End THEN r.End < x.End ELSE r.Start <= x.Start
LessThenFingerprint(r, x) ==
    IF r.Start # x.Start THEN r.Start < x.Start
    ELSE IF r.End # x.End THEN r.End < x.End
    ELSE r.Fingerprint <= x.Fingerprint
Less(r, x) ==
    IF r.Start # x.Start THEN r.Start < x.Start ELSE r.End <= x.End

\* Less has not been called
NotCompared == [called |-> FALSE, ret |-> FALSE]

LInit ==
    /\ lessR \in ChunkRefs
    /\ lessX \in ChunkRefs
    /\ lessRet = NotCompared

\* lessR.Less(lessX)
CallLess ==
    /\ ~lessRet.called
    /\ lessRet' = [called |-> TRUE, ret |-> Less(lessR, lessX)]
    /\ UNCHANGED <<lessR, lessX>>
    /\ UNCHANGED <<qvars, gvars, dvars, tvars, ivars, cvars, svars>>

LNext == CallLess

(***************************************************************************)
(* Index.GetChunkRefs (index.go:33-45). The interface has no               *)
(* implementation in this package: the call is modelled from its           *)
(* documented contract, validation of the shard first, then the lookup.    *)
(***************************************************************************)
\* index.ShardAnnotation, or nil
NilShard == [isNil |-> TRUE, index |-> 0, count |-> 0]
Shards ==
    {NilShard} \cup
    {[isNil |-> FALSE, index |-> i, count |-> n] :
        i \in 0..(MaxShardCount - 1), n \in 1..MaxShardCount}

\* n is a power of two, by halving
RECURSIVE IsPowerOfTwo(_)
IsPowerOfTwo(n) ==
    IF n <= 0 THEN FALSE
    ELSE IF n = 1 THEN TRUE
    ELSE n % 2 = 0 /\ IsPowerOfTwo(n \div 2)

\* "any shard used must be a valid factor of two" (line 44), and its index
\* is one of its count
ShardValidAlways(s) == TRUE
ShardValid(s) ==
    s.isNil \/ (IsPowerOfTwo(s.count) /\ s.index >= 0 /\ s.index < s.count)

\* the series of the requested shard; all of them with a nil shard
\* (lines 41-43)
InShard(fp, s) == s.isNil \/ fp % s.count = s.index

ErrInvalidShard == "invalid shard"

\* GetChunkRefs has not returned
NoRefs == [fps |-> {}, err |-> NoValue]

IInit ==
    /\ indexSeries \in SUBSET Fingerprints
    /\ shard \in Shards
    /\ ipc = "entry"
    /\ lookups = 0
    /\ refsRet = NoRefs

\* an invalid shard is a configuration error: the call fails at once
GetChunkRefsReject ==
    /\ ipc = "entry"
    /\ ~ShardValid(shard)
    /\ ipc' = "done"
    /\ refsRet' = [fps |-> {}, err |-> ErrInvalidShard]
    /\ UNCHANGED <<indexSeries, shard, lookups>>
    /\ UNCHANGED <<qvars, gvars, dvars, tvars, lvars, cvars, svars>>

\* the shard is nil or valid: the call goes on to the index
GetChunkRefsAccept ==
    /\ ipc = "entry"
    /\ ShardValid(shard)
    /\ ipc' = "lookup"
    /\ UNCHANGED <<indexSeries, shard, lookups, refsRet>>
    /\ UNCHANGED <<qvars, gvars, dvars, tvars, lvars, cvars, svars>>

\* the index lookup, restricted to the shard, and the return
GetChunkRefsLookup ==
    /\ ipc = "lookup"
    /\ lookups' = lookups + 1
    /\ ipc' = "done"
    /\ refsRet' = [fps |-> {fp \in indexSeries : InShard(fp, shard)}, err |-> Nil]
    /\ UNCHANGED <<indexSeries, shard>>
    /\ UNCHANGED <<qvars, gvars, dvars, tvars, lvars, cvars, svars>>

INext ==
    \/ GetChunkRefsReject
    \/ GetChunkRefsAccept
    \/ GetChunkRefsLookup

(***************************************************************************)
(* Specifications: one call of DoParallelQueries (Spec), one call of       *)
(* GetParallelChunks (SpecChunks). The variables of the other call keep    *)
(* the value they have before it starts.                                   *)
(***************************************************************************)
QIdle ==
    /\ numQueries = 0
    /\ cpc = "entry"
    /\ di = 0
    /\ ci = 0
    /\ lastErr = Nil
    /\ ret = NoValue
    /\ mq = <<>>
    /\ seenRangeValues = NewSeenRangeValues
    /\ numEntriesSent = 0
    /\ mtx = [readers |-> {}, writer |-> 0]
    /\ yielded = [p \in Pairs |-> 0]
    /\ offered = {}
    /\ stoppedEarly = FALSE
    /\ recvd = <<>>
    /\ nbatch = 0
    /\ qctxErr = Nil

GIdle ==
    /\ chunks = <<>>
    /\ maxParallel = 0
    /\ ctxErr = Nil
    /\ gpc = "entry"
    /\ wi = 0
    /\ gi = 0
    /\ result = <<>>
    /\ glastErr = Nil
    /\ gret = NoReturn
    /\ producer = [pc |-> "notstarted", i |-> 1]
    /\ queueClosed = FALSE
    /\ workers = <<>>
    /\ decodeContextPool = {}
    /\ nextCtx = 0
    /\ invoked = <<>>
    /\ outcome = <<>>
    /\ errsRecvd = <<>>
    /\ entryErr = NoValue
    /\ others = [k \in OtherWorkers |-> OtherWorker]

DIdle ==
    /\ dcalls = <<>>
    /\ dedupers = <<>>
    /\ forwarded = <<>>

TIdle ==
    /\ byTableIn = <<>>
    /\ byTableOut = NotGrouped

LIdle ==
    /\ lessR = NoValue
    /\ lessX = NoValue
    /\ lessRet = NotCompared

(***************************************************************************)
(* cmd/monitor: RunMevBlockDetector (hashpower.go:29-56) with the          *)
(* goroutine that publishes authors on authorCh and the caller of the      *)
(* stop function, and the entry of RunWebsocketClient (bundle.go:291-307). *)
(***************************************************************************)
Authors == {"a1", "a2"}
Hosts == {"localhost:8546"}

\* []string of the configuration, nil when not configured
NilList == [isNil |-> TRUE, vals |-> {}]
Whitelists == {NilList} \cup {[isNil |-> FALSE, vals |-> S] : S \in SUBSET Authors}

\* *string of the configuration, nil when not configured
NilHost == [isNil |-> TRUE, host |-> ""]
NodeHosts == {NilHost} \cup {[isNil |-> FALSE, host |-> h] : h \in Hosts}

ErrNoWhitelist == "Please configure hashpower.whitelist"
ErrNoHost == "Please configure node.host!"

NotCalled == [called |-> FALSE, err |-> NoValue]
NotRun == [called |-> FALSE, outcome |-> NoValue]

\* lines 34-37: the hashset built from cfg.Whitelist
whitelist == whitelistCfg.vals

\* lines 47-49: if whitelist.Contains(author) { mevTotal.Inc() }
CountAuthor(n, author) == IF author \in whitelist THEN n + 1 ELSE n

\* lines 44-53: the goroutine is one select, with no loop around it: after
\* the case of line 46 the function literal ends
AfterAuthor == "exited"

\* bundle.go:298: if cfg.Host != nil { return ..., errors.New(...) }
HostCheck(h) == ~h.isNil

MInit ==
    /\ whitelistCfg \in Whitelists
    /\ toPublish \in SeqsUpTo(Authors, MaxAuthors)
    /\ published = 0
    /\ mevRet = NotCalled
    /\ mevpc = "none"
    /\ mevTotal = 0
    /\ stoppc = "idle"
    /\ nodeHost \in NodeHosts
    /\ wsRet = NotRun

\* lines 31-33: no whitelist configured
MevRejects ==
    /\ ~mevRet.called
    /\ whitelistCfg.isNil
    /\ mevRet' = [called |-> TRUE, err |-> ErrNoWhitelist]
    /\ UNCHANGED <<whitelistCfg, toPublish, published, mevpc, mevTotal, stoppc,
                   nodeHost, wsRet>>
    /\ UNCHANGED <<qvars, gvars, dvars, tvars, lvars, ivars, cvars, bvars>>

\* lines 34-55: the goroutine is started and stop is returned
MevStarts ==
    /\ ~mevRet.called
    /\ ~whitelistCfg.isNil
    /\ mevRet' = [called |-> TRUE, err |-> Nil]
    /\ mevpc' = "select"
    /\ UNCHANGED <<whitelistCfg, toPublish, published, mevTotal, stoppc,
                   nodeHost, wsRet>>
    /\ UNCHANGED <<qvars, gvars, dvars, tvars, lvars, ivars, cvars, bvars>>

\* lines 46-49: authorCh <- author of the publisher (bundle.go:347) meets the
\* receive of the select
MevReceives ==
    /\ mevpc = "select"
    /\ published < Len(toPublish)
    /\ mevTotal' = CountAuthor(mevTotal, toPublish[published + 1])
    /\ published' = published + 1
    /\ mevpc' = AfterAuthor
    /\ UNCHANGED <<whitelistCfg, toPublish, mevRet, stoppc, nodeHost, wsRet>>
    /\ UNCHANGED <<qvars, gvars, dvars, tvars, lvars, ivars, cvars, bvars>>

\* the caller calls stop (monitor's deferred call, part_005:107): it comes to
\* stopCh <- struct{}{} (line 41) on the unbuffered stopCh
StopCalled ==
    /\ mevRet.called /\ mevRet.err = Nil
    /\ stoppc = "idle"
    /\ stoppc' = "sending"
    /\ UNCHANGED <<whitelistCfg, toPublish, published, mevRet, mevpc, mevTotal,
                   nodeHost, wsRet>>
    /\ UNCHANGED <<qvars, gvars, dvars, tvars, lvars, ivars, cvars, bvars>>

\* lines 50-51 and 41: the send on stopCh meets the receive of the select;
\* the goroutine returns and so does stop
MevStops ==
    /\ mevpc = "select"
    /\ stoppc = "sending"
    /\ mevpc' = "exited"
    /\ stoppc' = "returned"
    /\ UNCHANGED <<whitelistCfg, toPublish, published, mevRet, mevTotal,
                   nodeHost, wsRet>>
    /\ UNCHANGED <<qvars, gvars, dvars, tvars, lvars, ivars, cvars, bvars>>

\* bundle.go:298-300: the check of cfg.Host returns the configuration error
WsRejects ==
    /\ ~wsRet.called
    /\ HostCheck(nodeHost)
    /\ wsRet' = [called |-> TRUE, outcome |-> ErrNoHost]
    /\ UNCHANGED <<whitelistCfg, toPublish, published, mevRet, mevpc, mevTotal,
                   stoppc, nodeHost>>
    /\ UNCHANGED <<qvars, gvars, dvars, tvars, lvars, ivars, cvars, bvars>>

\* bundle.go:303: past the check, fmt.Sprintf("ws://%v", *cfg.Host) reads
\* through cfg.Host, which is nil there: the run-time panic of a nil
\* pointer dereference, before rpc.DialContext
WsDereferences ==
    /\ ~wsRet.called
    /\ ~HostCheck(nodeHost)
    /\ wsRet' = [called |-> TRUE,
                 outcome |-> IF nodeHost.isNil THEN "panic: nil dereference"
                             ELSE "dial " \o nodeHost.host]
    /\ UNCHANGED <<whitelistCfg, toPublish, published, mevRet, mevpc, mevTotal,
                   stoppc, nodeHost>>
    /\ UNCHANGED <<qvars, gvars, dvars, tvars, lvars, ivars, cvars, bvars>>

MNext ==
    \/ MevRejects
    \/ MevStarts
    \/ MevReceives
    \/ StopCalled
    \/ MevStops
    \/ WsRejects
    \/ WsDereferences

MIdle ==
    /\ whitelistCfg = NilList
    /\ toPublish = <<>>
    /\ published = 0
    /\ mevRet = NotCalled
    /\ mevpc = "none"
    /\ mevTotal = 0
    /\ stoppc = "idle"
    /\ nodeHost = NilHost
    /\ wsRet = NotRun

(***************************************************************************)
(* isBundleIncluded (bundle.go:230-250)                                    *)
(***************************************************************************)
Txns == {"x", "y"}
TxnLists == SeqsUpTo(Txns, MaxTxns)

\* lines 236-241: the inner loop from bundleTxnIdx on; indexes are 0-based
\* as in the code
RECURSIVE MatchesAt(_, _, _, _)
MatchesAt(bundle, block, blockTxnIdx, bundleTxnIdx) ==
    IF bundleTxnIdx < Len(bundle)
    THEN IF bundle[bundleTxnIdx + 1] # block[blockTxnIdx + bundleTxnIdx + 1]
         THEN FALSE
         ELSE MatchesAt(bundle, block, blockTxnIdx, bundleTxnIdx + 1)
    ELSE TRUE

\* line 234: blockTxnIdx+numBundleTxns <= numBlockTxns
WindowFitsStrictly(blockTxnIdx, numBundleTxns, numBlockTxns) ==
    blockTxnIdx + numBundleTxns < numBlockTxns
WindowFits(blockTxnIdx, numBundleTxns, numBlockTxns) ==
    blockTxnIdx + numBundleTxns <= numBlockTxns

\* lines 234-249: the outer loop from blockTxnIdx on
RECURSIVE ScanFrom(_, _, _)
ScanFrom(bundle, block, blockTxnIdx) ==
    IF WindowFits(blockTxnIdx, Len(bundle), Len(block))
    THEN IF MatchesAt(bundle, block, blockTxnIdx, 0)
         THEN TRUE
         ELSE ScanFrom(bundle, block, blockTxnIdx + 1)
    ELSE FALSE

isBundleIncluded(bundle, block) == ScanFrom(bundle, block, 0)

NotChecked == [called |-> FALSE, ret |-> FALSE]

BInit ==
    /\ bundleTxns \in TxnLists
    /\ blockTxns \in TxnLists
    /\ includedRet = NotChecked

\* isBundleIncluded(bundleTxns, blockTxns), as LogIncludedBundles calls it
\* (line 184)
CallIsBundleIncluded ==
    /\ ~includedRet.called
    /\ includedRet' = [called |-> TRUE,
                       ret |-> isBundleIncluded(bundleTxns, blockTxns)]
    /\ UNCHANGED <<bundleTxns, blockTxns>>
    /\ UNCHANGED <<qvars, gvars, dvars, tvars, lvars, ivars, cvars, mvars>>

BNext == CallIsBundleIncluded

BIdle ==
    /\ bundleTxns = <<>>
    /\ blockTxns = <<>>
    /\ includedRet = NotChecked

SIdle == MIdle /\ BIdle

(***************************************************************************)
(* IndexDeduper.Callback (queries.go:85-91) and the filtering iterator     *)
(* (133-157), Callback after Callback on one IndexDeduper in one           *)
(* goroutine, with queries that differ in their table and hash value.      *)
(***************************************************************************)
\* line 148: f.isSeen(f.query.HashValue, rangeValue)
IsSeenKeyWithTable(query) == query.TableName \o "/" \o query.HashValue
IsSeenKey(query) == query.HashValue

\* lines 86-89: the filteringBatch the downstream callback is given
FilteringBatch(query, batch) == [query |-> query, batch |-> batch]
NoBatch == [query |-> NoQuery, batch |-> <<>>]

\* line 86: return i.callback(...)
CallbackResultTrue(b) == TRUE
CallbackResult(b) == b

NewLogEntry(query, batch) ==
    [query |-> query, batch |-> batch, invoked |-> 0, given |-> NoBatch,
     flags |-> <<>>]

\* the queries MultiQueries runs: two that share the hash value and differ in
\* the table, and one with another hash value
CallbackQueries ==
    {IndexQuery("t1", "h1"), IndexQuery("t2", "h1"), IndexQuery("t1", "h2")}

\* no Callback call has returned
NoReturns == [n |-> 0, downstream |-> FALSE, callback |-> FALSE]

CInit ==
    /\ cbpc = "idle"
    /\ cbDeduper = NewIndexDeduper
    /\ cbPos = 0
    /\ cbDsRet = FALSE
    /\ cbUsed = 0
    /\ cbLog = <<>>
    /\ cbRets = NoReturns

\* the Callback call under way and what its downstream callback holds
CurLog == cbLog[Len(cbLog)]

\* MultiQueries calls id.Callback(query, batch) (line 85)
CallbackEnter ==
    /\ cbpc = "idle"
    /\ cbUsed < MaxRaw
    /\ \E q \in CallbackQueries, b \in Batches(MaxRaw - cbUsed) :
         /\ cbLog' = Append(cbLog, NewLogEntry(q, b))
         /\ cbUsed' = cbUsed + Cost(b)
    /\ cbpc' = "entered"
    /\ cbPos' = 0
    /\ UNCHANGED <<cbDeduper, cbDsRet, cbRets>>
    /\ UNCHANGED <<qvars, gvars, dvars, tvars, lvars, ivars, svars>>

\* lines 86-90: i.callback(query, &filteringBatch{query, ReadBatch, isSeen})
CallbackInvokes ==
    /\ cbpc = "entered"
    /\ cbLog' = [cbLog EXCEPT ![Len(cbLog)].invoked = @ + 1,
                   ![Len(cbLog)].given = FilteringBatch(CurLog.query, CurLog.batch)]
    /\ cbpc' = "cb"
    /\ UNCHANGED <<cbDeduper, cbPos, cbDsRet, cbUsed, cbRets>>
    /\ UNCHANGED <<qvars, gvars, dvars, tvars, lvars, ivars, svars>>

\* lines 147-153 and 93-123: Next moves the underlying iterator by one entry
\* and asks isSeen; a seen entry is skipped (line 150), a new one is
\* recorded, counted and yielded (line 153)
FilterNext ==
    /\ cbpc = "cb"
    /\ cbPos < Len(CurLog.given.batch)
    /\ LET key == IsSeenKey(CurLog.given.query)
           r == CurLog.given.batch[cbPos + 1]
           seen == SeenIn(cbDeduper, key, r)
       IN  /\ cbDeduper' = IF seen THEN cbDeduper ELSE RecordIn(cbDeduper, key, r)
           /\ cbLog' = [cbLog EXCEPT ![Len(cbLog)].flags = Append(@, ~seen)]
    /\ cbPos' = cbPos + 1
    /\ UNCHANGED <<cbpc, cbDsRet, cbUsed, cbRets>>
    /\ UNCHANGED <<qvars, gvars, dvars, tvars, lvars, ivars, svars>>

\* the downstream callback returns true or false, at the end of the batch or
\* before it
DownstreamReturns ==
    /\ cbpc = "cb"
    /\ cbDsRet' \in BOOLEAN
    /\ cbpc' = "back"
    /\ UNCHANGED <<cbDeduper, cbPos, cbUsed, cbLog, cbRets>>
    /\ UNCHANGED <<qvars, gvars, dvars, tvars, lvars, ivars, svars>>

\* line 86: Callback returns what i.callback returned
CallbackReturn ==
    /\ cbpc = "back"
    /\ cbRets' = [n |-> cbRets.n + 1, downstream |-> cbDsRet,
                   callback |-> CallbackResult(cbDsRet)]
    /\ cbpc' = "idle"
    /\ UNCHANGED <<cbDeduper, cbPos, cbDsRet, cbUsed, cbLog>>
    /\ UNCHANGED <<qvars, gvars, dvars, tvars, lvars, ivars, svars>>

CNext ==
    \/ CallbackEnter
    \/ CallbackInvokes
    \/ FilterNext
    \/ DownstreamReturns
    \/ CallbackReturn

CIdle == CInit

IIdle ==
    /\ indexSeries = {}
    /\ shard = NilShard
    /\ ipc = "entry"
    /\ lookups = 0
    /\ refsRet = NoRefs

UIdle == DIdle /\ TIdle /\ LIdle /\ IIdle /\ CIdle /\ SIdle

Init == QInit /\ GIdle /\ UIdle
Next == QNext
Spec == Init /\ [][Next]_vars

InitChunks == GInit /\ QIdle /\ UIdle
NextChunks == GNext
SpecChunks == InitChunks /\ [][NextChunks]_vars

\* DoParallelQueries with a ctx that may be cancelled during the call
NextCancel == QNext \/ QCtxCancel
SpecCancel == Init /\ [][NextCancel]_vars

\* one call of GetParallelChunks whose ctx stays live, while workers of other
\* calls take decode contexts from the shared pool and put them back
NextShared ==
    \/ GEntry
    \/ GSpawn
    \/ GSpawnDone
    \/ GReturn
    \/ ProducerClose
    \/ \E w \in Workers : GCollect(w)
    \/ \E w \in Workers : WorkerGet(w)
    \/ \E w \in Workers : WorkerTake(w)
    \/ \E w \in Workers : WorkerDecoded(w)
    \/ \E w \in Workers : WorkerPut(w)
    \/ \E k \in OtherWorkers : OtherWorkerGet(k)
    \/ \E k \in OtherWorkers : OtherWorkerPut(k)
InitShared == InitChunks /\ ctxErr = Nil
SpecShared == InitShared /\ [][NextShared]_vars

\* the Go scheduler runs every runnable goroutine: a step of the producer or
\* of a worker that does not block (close, Get, Put) is taken once it stays
\* possible; each of these steps changes the pool or closes the queue
poolvars == <<decodeContextPool, nextCtx, queueClosed>>
SpecChunksFair ==
    /\ SpecChunks
    /\ WF_poolvars(ProducerClose)
    /\ \A w \in 1..MaxParallel : WF_poolvars(w \in Workers /\ WorkerGet(w))
    /\ \A w \in 1..MaxParallel : WF_poolvars(w \in Workers /\ WorkerPut(w))

\* MaxCalls calls of DoParallelQueries, each with its own downstream callback
InitCalls == DInit /\ QIdle /\ GIdle /\ TIdle /\ LIdle /\ IIdle /\ CIdle /\ SIdle
NextCalls == DNext
SpecCalls == InitCalls /\ [][NextCalls]_vars

\* one call of QueriesByTable
InitByTable == TInit /\ QIdle /\ GIdle /\ DIdle /\ LIdle /\ IIdle /\ CIdle /\ SIdle
NextByTable == TNext
SpecByTable == InitByTable /\ [][NextByTable]_vars

\* one call of ChunkRef.Less
InitLess == LInit /\ QIdle /\ GIdle /\ DIdle /\ TIdle /\ IIdle /\ CIdle /\ SIdle
NextLess == LNext
SpecLess == InitLess /\ [][NextLess]_vars

\* one call of Index.GetChunkRefs
InitIndex == IInit /\ QIdle /\ GIdle /\ DIdle /\ TIdle /\ LIdle /\ CIdle /\ SIdle
NextIndex == INext
SpecIndex == InitIndex /\ [][NextIndex]_vars

\* IndexDeduper.Callback, call after call on one deduper
InitCallback == CInit /\ QIdle /\ GIdle /\ DIdle /\ TIdle /\ LIdle /\ IIdle /\ SIdle
NextCallback == CNext
SpecCallback == InitCallback /\ [][NextCallback]_vars

\* the services of cmd/monitor: one call of RunMevBlockDetector with its
\* goroutine, the publisher of authors and the caller of stop, and one call
\* of RunWebsocketClient
InitServices ==
    MInit /\ BIdle /\ QIdle /\ GIdle /\ DIdle /\ TIdle /\ LIdle /\ IIdle /\ CIdle
NextServices == MNext
SpecServices == InitServices /\ [][NextServices]_vars

\* one call of isBundleIncluded
InitBundle ==
    BInit /\ MIdle /\ QIdle /\ GIdle /\ DIdle /\ TIdle /\ LIdle /\ IIdle /\ CIdle
NextBundle == BNext
SpecBundle == InitBundle /\ [][NextBundle]_vars

(***************************************************************************)
(* Properties of DoParallelQueries, checked under Spec                     *)
(***************************************************************************)
\* no downstream callback is running: every batch handed out so far was
\* either iterated to its end or left early
NoCallbackRunning ==
    \A c \in Calls : mq[c].pc \in {"running", "send", "exited"}

\* the call is on the fan-out path (line 47 was false)
FanOut == numQueries > maxQueriesPerGoroutine

\* C1: within one DoParallelQueries call every (hash value, range value) pair
\* is yielded to the downstream callback at most once, whatever the
\* interleaving of the workers and the number of batches; and when every batch
\* handed to the downstream callback was iterated to its end, every pair held
\* by those batches was yielded exactly once.
C1_YieldedAtMostOnce ==
    /\ \A p \in Pairs : yielded[p] <= 1
    /\ (NoCallbackRunning /\ ~stoppedEarly) =>
          \A p \in Pairs : yielded[p] = (IF p \in offered THEN 1 ELSE 0)

\* C1 witness: two workers went for the same unrecorded pair; both passed the
\* optimistic check, one recorded it and yielded it, the other found it at
\* the re-check under the exclusive lock.
C1_Witness ==
    \E c1, c2 \in Calls :
       /\ c1 # c2
       /\ mq[c1].gor = "worker" /\ mq[c2].gor = "worker"
       /\ mq[c1].pc = "cb" /\ mq[c1].pos > 0
       /\ mq[c2].pc = "locked" /\ mq[c2].seen
       /\ CurPair(c1) = CurPair(c2)
       /\ yielded[CurPair(c1)] = 1

\* the last non-nil element of a sequence of outcomes, Nil when there is none
LastNonNil(s) ==
    IF \A k \in 1..Len(s) : s[k] = Nil
    THEN Nil
    ELSE s[CHOOSE k \in 1..Len(s) :
              s[k] # Nil /\ \A j \in (k + 1)..Len(s) : s[j] = Nil]

\* ceil(n / d)
CeilDiv(n, d) == (n + d - 1) \div d

\* C4: on the fan-out path DoParallelQueries returns nil iff every worker's
\* MultiQueries returned nil, and otherwise the non-nil error the coordinator
\* received last: one worker's error, never a combination, and not erased by
\* a nil outcome received after it.
C4_ReturnsLastError ==
    (cpc = "done" /\ FanOut) =>
       /\ Len(recvd) = CeilDiv(numQueries, maxQueriesPerGoroutine)
       /\ (ret = Nil) <=> (\A k \in 1..Len(recvd) : recvd[k] = Nil)
       /\ ret = LastNonNil(recvd)
       /\ ret # Nil => \E c \in Calls : ret = ErrOf(c)

\* C4 witness: two workers failed with different errors, a third returned nil
\* after them, and the call returned the second error.
C4_Witness ==
    /\ cpc = "done"
    /\ Len(recvd) = 3
    /\ recvd[1] # Nil /\ recvd[2] # Nil /\ recvd[1] # recvd[2]
    /\ recvd[3] = Nil
    /\ ret = recvd[2]

\* C5 (state part): when DoParallelQueries returns an error on the fan-out
\* path, every slice of queries was dispatched and every MultiQueries call
\* has run to completion, the failed ones and their siblings alike.
C5_AllWorkersRan ==
    (cpc = "done" /\ FanOut /\ ret # Nil) =>
       /\ Len(mq) = CeilDiv(numQueries, maxQueriesPerGoroutine)
       /\ \A c \in Calls : mq[c].pc = "exited"
       /\ Len(recvd) = Len(mq)

\* C5 (step part): no step takes back an entry that was yielded, and the
\* return of DoParallelQueries leaves the yielded entries and the dedup state
\* as they are.
C5_NothingRolledBack ==
    /\ \A p \in Pairs : yielded'[p] >= yielded[p]
    /\ (cpc # "done" /\ cpc' = "done") =>
          /\ yielded' = yielded
          /\ seenRangeValues' = seenRangeValues
          /\ numEntriesSent' = numEntriesSent

\* C5: a failing MultiQueries call does not abort or skip its siblings, and
\* nothing delivered is rolled back when DoParallelQueries returns an error.
C5_SiblingsNotAborted == []C5_AllWorkersRan /\ [][C5_NothingRolledBack]_vars

\* C5 witness: the call returned an error although entries were yielded, one
\* of them after the coordinator had received the error.
C5_Witness ==
    /\ cpc = "done" /\ FanOut /\ ret # Nil
    /\ Len(recvd) = 3 /\ recvd[1] # Nil /\ recvd[2] = Nil /\ recvd[3] = Nil
    /\ \E p \in Pairs : yielded[p] = 1
    /\ numEntriesSent = MaxEntries

\* C6: with more than 100 queries the input is cut into consecutive slices of
\* at most 100, one MultiQueries call in a worker goroutine per slice,
\* ceil(len/100) calls in all; every query is in exactly one slice, every
\* slice but the last holds exactly 100, and 250 queries give 100, 100, 50.
C6_SlicesPartition ==
    (FanOut /\ cpc \in {"collect", "done"}) =>
       /\ Len(mq) = CeilDiv(numQueries, maxQueriesPerGoroutine)
       /\ \A c \in Calls :
            /\ mq[c].gor = "worker"
            /\ mq[c].lo = (c - 1) * 100
            /\ mq[c].hi - mq[c].lo >= 1
            /\ mq[c].hi - mq[c].lo <= 100
            /\ c < Len(mq) => mq[c].hi - mq[c].lo = 100
            /\ c < Len(mq) => mq[c + 1].lo = mq[c].hi
       /\ mq[Len(mq)].hi = numQueries
       /\ cpc = "done" =>
            \A i \in 1..numQueries :
               Cardinality({c \in Calls : mq[c].lo < i /\ i <= mq[c].hi}) = 1
       /\ numQueries = 250 =>
            [c \in Calls |-> mq[c].hi - mq[c].lo] = <<100, 100, 50>>

\* C6 witness: 250 queries were dispatched as three slices.
C6_Witness ==
    /\ cpc = "done"
    /\ numQueries = 250
    /\ Len(mq) = 3
    /\ mq[3].lo = 200 /\ mq[3].hi = 250

\* C7: with 1..100 queries DoParallelQueries makes exactly one MultiQueries
\* call, with the whole list, in the calling goroutine (no worker), through
\* the IndexDeduper, and returns that call's error unchanged.
C7_OneSynchronousCall ==
    (numQueries >= 1 /\ numQueries <= 100) =>
       /\ Len(mq) <= 1
       /\ \A c \in Calls :
            mq[c].gor = "caller" /\ mq[c].lo = 0 /\ mq[c].hi = numQueries
       /\ recvd = <<>>
       /\ \A p \in Pairs : yielded[p] <= 1
       /\ cpc # "done" => ret = NoValue
       /\ cpc = "done" =>
            /\ Len(mq) = 1
            /\ mq[1].pc = "exited"
            /\ ret = mq[1].err

\* C7 witness: a call with 100 queries returned the error of its one
\* MultiQueries call, after an entry was yielded.
C7_Witness ==
    /\ numQueries = 100
    /\ cpc = "done"
    /\ ret = ErrOf(1)
    /\ \E p \in Pairs : yielded[p] = 1

\* C8: with an empty query list DoParallelQueries returns nil, MultiQueries
\* is never called and the result callback never invoked.
C8_EmptyIsNoOp ==
    numQueries = 0 =>
       /\ mq = <<>>
       /\ nbatch = 0
       /\ \A p \in Pairs : yielded[p] = 0
       /\ cpc \in {"entry", "done"}
       /\ cpc = "done" => ret = Nil

\* C8 witness: the call with no query has returned nil.
C8_Witness == numQueries = 0 /\ cpc = "done" /\ ret = Nil

(***************************************************************************)
(* Properties of GetParallelChunks, checked under SpecChunks               *)
(***************************************************************************)
ChunkIdx == 1..Len(chunks)
Succeeded == {i \in ChunkIdx : outcome[i] = "ok"}
Failed == {i \in ChunkIdx : outcome[i] = "err"}
InProgress == {w \in Workers : workers[w].pc = "decode"}

\* the call has returned and its entry check had found ctx live
ReturnedAfterDispatch == gpc = "done" /\ entryErr = Nil

\* the elements of a sequence
Range(seq) == {seq[k] : k \in 1..Len(seq)}

C3_PartialResultAndLastError ==
    ReturnedAfterDispatch =>
       /\ Range(gret.chunks) = {Decoded(chunks[i]) : i \in Succeeded}
       /\ Len(gret.chunks) = Len(chunks) - Cardinality(Failed)
       /\ (gret.err = Nil) <=> (Failed = {})
       /\ Failed # {} => gret.err = errsRecvd[Len(errsRecvd)]
       /\ Range(errsRecvd) = {ErrChunk(chunks[i]) : i \in Failed}

\* C3 witness: the first chunk of three failed, then the third one; the two
\* outcomes received before and between them were kept or replaced as the
\* claim says.
C3_Witness ==
    /\ ReturnedAfterDispatch
    /\ Len(chunks) = 3
    /\ Failed = {1, 3}
    /\ gret.chunks = <<Decoded(chunks[2])>>
    /\ errsRecvd = <<ErrChunk(chunks[1]), ErrChunk(chunks[3])>>
    /\ gret.err = ErrChunk(chunks[3])

\* C9: if ctx is already cancelled at entry the call returns a nil chunk list
\* and ctx's error; no producer and no worker is started, no decode context
\* is taken from the pool and decodeFn is never invoked.
C9_CancelledAtEntry ==
    (entryErr # NoValue /\ entryErr # Nil) =>
       /\ gpc = "done"
       /\ gret = [chunks |-> <<>>, isNil |-> TRUE, err |-> CtxCanceled]
       /\ producer.pc = "notstarted"
       /\ workers = <<>>
       /\ nextCtx = 0 /\ decodeContextPool = {}
       /\ \A i \in ChunkIdx : invoked[i] = 0 /\ outcome[i] = NoValue

\* C9 witness: a call with chunks to fetch and workers allowed returned at
\* the entry check.
C9_Witness ==
    /\ entryErr = CtxCanceled
    /\ gpc = "done"
    /\ Len(chunks) = MaxChunks /\ maxParallel = MaxParallel

\* the smaller of two numbers
Smaller(a, b) == IF a <= b THEN a ELSE b

\* C10: exactly min(maxParallel, len(chunks)) workers are started, so at no
\* time are more than maxParallel decodeFn invocations in progress.
C10_BoundedParallelism ==
    /\ Len(workers) <= Smaller(maxParallel, Len(chunks))
    /\ Cardinality(InProgress) <= maxParallel
    /\ (entryErr = Nil /\ gpc \in {"collect", "done"}) =>
          Len(workers) = Smaller(maxParallel, Len(chunks))

\* C10 witness: with more chunks than maxParallel, maxParallel decodeFn
\* invocations are in progress at once.
C10_Witness ==
    /\ maxParallel = 2 /\ Len(chunks) = 3
    /\ Cardinality(InProgress) = 2
    /\ producer.i = 3

(***************************************************************************)
(* Decode contexts, checked under SpecShared                               *)
(***************************************************************************)
\* the workers between decodeContextPool.Get and decodeContextPool.Put
Holding == {w \in Workers : workers[w].pc \in {"recv", "decode", "send"}}

\* the workers of other calls between their Get and their Put
OthersHolding == {k \in OtherWorkers : others[k].pc = "range"}

\* C11 (state part): a worker that is receiving, decoding or sending holds a
\* decode context taken from the pool; the context lies neither in the pool
\* nor with another running worker, of this call or of another call on the
\* shared pool; a worker has put its context back only once the work queue
\* is closed and drained.
C11_OneOwner ==
    /\ \A w \in Workers :
          /\ workers[w].pc \in {"get", "exited"} => workers[w].ctx = 0
          /\ w \in Holding =>
                /\ workers[w].ctx \in 1..nextCtx
                /\ workers[w].ctx \notin decodeContextPool
                /\ \A k \in OthersHolding : others[k].ctx # workers[w].ctx
          /\ workers[w].pc = "exited" =>
                queueClosed /\ producer.i > Len(chunks)
    /\ \A v, w \in Holding : v # w => workers[v].ctx # workers[w].ctx
    /\ \A j, k \in OthersHolding : j # k => others[j].ctx # others[k].ctx
    /\ \A k \in OthersHolding : others[k].ctx \in (1..nextCtx) \ decodeContextPool

\* C11 (step part): from its Get to its Put a worker keeps the context it
\* took, so every decodeFn call it makes gets that context; no step takes a
\* held context away from a worker or puts it into the pool except the
\* worker's own Put.
C11_KeepsContext ==
    \A w \in Workers :
       /\ (w \in Holding /\ workers'[w].pc # "exited") =>
             workers'[w].ctx = workers[w].ctx
       /\ (w \in Holding /\ workers'[w].pc = "exited") =>
             /\ workers[w].pc = "recv"
             /\ workers[w].ctx \in decodeContextPool'

\* C11: each worker takes one decode context from the pool before its first
\* chunk, passes that same context to every decodeFn call and puts it back
\* only after the work queue is exhausted; at no time is one decode context
\* held by two running workers, also when other GetParallelChunks calls use
\* the shared pool at the same time.
C11_OneOwnerPerContext == []C11_OneOwner /\ [][C11_KeepsContext]_vars

\* C11 witness: the first worker is in its second decodeFn call while the
\* second worker of the call and a worker of another call hold contexts of
\* their own.
C11_Witness ==
    /\ Len(workers) = 2
    /\ workers[1].pc = "decode" /\ workers[1].c = Chunk(3)
    /\ workers[2].pc = "decode" /\ workers[2].c = Chunk(1)
    /\ outcome[2] # NoValue
    /\ OthersHolding # {}
    /\ nextCtx = 3

\* the coordinator has collected all len(chunks) outcomes
AllCollected ==
    /\ entryErr = Nil
    /\ gpc \in {"collect", "done"}
    /\ gi = Len(chunks)

\* every worker of the call has ended and holds no decode context
AllPutBack ==
    /\ Len(workers) = NumWorkers
    /\ \A w \in Workers : workers[w].pc = "exited" /\ workers[w].ctx = 0
    /\ decodeContextPool = 1..nextCtx

\* C12: once all len(chunks) outcomes have been collected, every worker
\* reaches decodeContextPool.Put: every decode context a worker took is
\* eventually back in the pool, also when decodeFn calls returned errors.
C12_EveryContextPutBack == AllCollected ~> AllPutBack

\* C12 witness: two workers took a context each, decodeFn failed on all
\* three chunks, the three errors were collected and both contexts are back
\* in the pool.
C12_Witness ==
    /\ AllCollected /\ AllPutBack
    /\ Len(chunks) = 3 /\ Len(workers) = 2
    /\ Failed = ChunkIdx
    /\ decodeContextPool = {1, 2}

(***************************************************************************)
(* The deduper's count and laziness, checked under Spec                    *)
(***************************************************************************)
\* the pairs recorded in seenRangeValues
Recorded == {p \in Pairs : Lookup(p[1], p[2])}

\* the sum of f over the set S
RECURSIVE SumOver(_, _)
SumOver(f, S) ==
    IF S = {} THEN 0
    ELSE LET x == CHOOSE y \in S : TRUE
         IN  f[x] + SumOver(f, S \ {x})

\* the isSeen calls that have returned false: each makes Next return true
ReturnedFalse == SumOver(yielded, Pairs)

Yielded == {p \in Pairs : yielded[p] > 0}

\* the pairs an isSeen call has recorded and is about to count and yield
BeingYielded ==
    {CurPair(c) : c \in {d \in Calls : mq[d].pc = "locked" /\ ~mq[d].seen}}

\* C15 (state part): the recorded pairs are the pairs that were yielded, or
\* are being yielded under the exclusive lock; a pair of a delivered batch
\* that no Next call reached is neither recorded nor counted.
C15_OnlyReachedRecorded ==
    /\ Recorded = Yielded \cup BeingYielded
    /\ Yielded \subseteq offered
    /\ numEntriesSent = Cardinality(Yielded)

\* C15 (step part): a step in which a downstream callback receives a batch,
\* or returns before the end of its batch, leaves the seen-set and the count
\* as they are; the seen-set grows by one pair at a time, the pair the
\* stepping iterator stands on.
C15_LazyStep ==
    /\ \A c \in Calls :
          (/\ mq'[c] # mq[c]
           /\ mq[c].pc \in {"running", "cb"}
           /\ mq'[c].pc \in {"running", "cb"}) =>
             UNCHANGED <<seenRangeValues, numEntriesSent>>
    /\ seenRangeValues' # seenRangeValues =>
          \E c \in Calls :
             /\ mq[c].pc = "wantlock" /\ mq'[c].pc = "locked"
             /\ seenRangeValues' =
                   AddRangeValue(mq[c].query.HashValue, CurRange(c))

\* C15: filtering is lazy: an entry is recorded and counted only when a Next
\* call reaches it; the entries of a batch whose iterator was never advanced
\* or was left early are not recorded, so the same pair arriving in a later
\* batch is still forwarded.
C15_LazyFiltering == []C15_OnlyReachedRecorded /\ [][C15_LazyStep]_vars

\* C15 witness: the only MultiQueries call was given the batch <<r1>> twice;
\* the first time the downstream callback returned without calling Next, the
\* second time Next yielded r1.
C15_Witness ==
    /\ Len(mq) = 1 /\ cpc = "sync"
    /\ nbatch = 2 /\ stoppedEarly
    /\ mq[1].pc = "cb" /\ mq[1].batch = <<"r1">> /\ mq[1].pos = 1
    /\ offered = {<<mq[1].query.HashValue, "r1">>}
    /\ yielded[<<mq[1].query.HashValue, "r1">>] = 1
    /\ numEntriesSent = 1

(***************************************************************************)
(* The scope of the dedup state, checked under SpecCalls                   *)
(***************************************************************************)
\* the calls that have made their deduper
Entered == {k \in DedupCalls : dcalls[k].pc # "entry"}

\* the range values the iterator of call k has passed
Passed(k) == {dcalls[k].batch[i] : i \in 1..dcalls[k].pos}

\* C13 (state part): every call has an IndexDeduper of its own, and what a
\* call has forwarded depends on its own batch alone: each distinct range
\* value its iterator has passed was forwarded once, whether or not another
\* call, earlier or at the same time, forwarded the same pair.
C13_OwnDeduper ==
    /\ \A j, k \in Entered : j # k => dcalls[j].id # dcalls[k].id
    /\ \A k \in Entered :
          /\ dcalls[k].id \in 1..Len(dedupers)
          /\ Range(forwarded[k]) = Passed(k)
          /\ Len(forwarded[k]) = Cardinality(Passed(k))
          /\ dedupers[dcalls[k].id].numEntriesSent = Len(forwarded[k])

\* C13 (step part): the deduper a call makes at its entry has an empty
\* seen-set and a zero count, and a Next of one call leaves the dedupers of
\* the other calls as they are.
C13_FreshAndPrivate ==
    \A k \in DedupCalls :
       /\ (dcalls[k].pc = "entry" /\ dcalls'[k].pc = "made") =>
             dedupers'[dcalls'[k].id] = NewIndexDeduper
       /\ (dcalls[k].pc = "cb" /\ dcalls'[k].pos # dcalls[k].pos) =>
             \A j \in Entered \ {k} :
                dedupers'[dcalls[j].id] = dedupers[dcalls[j].id]

\* C13: the dedup state is scoped to one DoParallelQueries call: each call
\* makes a fresh IndexDeduper with an empty seen-set, so a pair forwarded in
\* one call is forwarded again in a later or concurrent call; no pair is
\* suppressed because of a different call.
C13_DedupScopedToCall == []C13_OwnDeduper /\ [][C13_FreshAndPrivate]_vars

\* C13 witness: a call forwarded the pair (h1, r1) and returned; the call
\* that made its deduper after it was given the same pair and forwarded it
\* again.
C13_Witness ==
    /\ dcalls[1].pc = "done" /\ dcalls[2].pc = "cb"
    /\ dcalls[1].hash = "h1" /\ dcalls[2].hash = "h1"
    /\ dcalls[1].batch = <<"r1">> /\ dcalls[2].batch = <<"r1">>
    /\ dcalls[2].id = 2
    /\ forwarded[1] = <<"r1">> /\ forwarded[2] = <<"r1">>

(***************************************************************************)
(* QueriesByTable, checked under SpecByTable                               *)
(***************************************************************************)
\* how many times x stands in the sequence seq
Count(seq, x) == Cardinality({i \in 1..Len(seq) : seq[i] = x})

\* the sum of the lengths of the groups of the map m over the keys S
RECURSIVE TotalLen(_, _)
TotalLen(m, S) ==
    IF S = {} THEN 0
    ELSE LET t == CHOOSE u \in S : TRUE
         IN  Len(m[t]) + TotalLen(m, S \ {t})

\* C16: the map QueriesByTable returns is a partition of its input: every
\* query under key t has TableName t, no key maps to an empty list, the keys
\* are the table names of the input, and every query stands in the groups as
\* many times as in the input, all of them in the group of its table; an
\* empty input gives an empty map.
C16_GroupsPartitionInput ==
    byTableOut.called =>
       /\ DOMAIN byTableOut.ret =
             {byTableIn[i].TableName : i \in 1..Len(byTableIn)}
       /\ \A t \in DOMAIN byTableOut.ret :
             /\ Len(byTableOut.ret[t]) > 0
             /\ \A i \in 1..Len(byTableOut.ret[t]) : byTableOut.ret[t][i].TableName = t
       /\ \A x \in TableQueries :
             /\ x.TableName \in DOMAIN byTableOut.ret =>
                   Count(byTableOut.ret[x.TableName], x) = Count(byTableIn, x)
             /\ x.TableName \notin DOMAIN byTableOut.ret => Count(byTableIn, x) = 0
       /\ TotalLen(byTableOut.ret, DOMAIN byTableOut.ret) = Len(byTableIn)
       /\ byTableIn = <<>> => byTableOut.ret = EmptyMap

\* C16 witness: three queries, one of them twice, of two tables were grouped
\* under two keys.
C16_Witness ==
    /\ byTableOut.called
    /\ Len(byTableIn) = 3
    /\ byTableIn[1] = byTableIn[3]
    /\ byTableIn[1].TableName # byTableIn[2].TableName
    /\ DOMAIN byTableOut.ret = Tables

\* C17: the group of table t is exactly the subsequence of the input made
\* of the queries whose TableName is t, in input order.
C17_GroupsKeepInputOrder ==
    byTableOut.called =>
       \A t \in DOMAIN byTableOut.ret :
          byTableOut.ret[t] = SelectSeq(byTableIn, LAMBDA x : x.TableName = t)

\* C17 witness: two different queries of one table, with a query of another
\* table between them, stand in their group in input order.
C17_Witness ==
    /\ byTableOut.called
    /\ byTableIn = <<IndexQuery("t1", "h2"), IndexQuery("t2", "h1"),
                     IndexQuery("t1", "h1")>>
    /\ byTableOut.ret["t1"] = <<IndexQuery("t1", "h2"), IndexQuery("t1", "h1")>>
    /\ byTableOut.ret["t2"] = <<IndexQuery("t2", "h1")>>

(***************************************************************************)
(* ChunkRef.Less, checked under SpecLess                                   *)
(***************************************************************************)
\* the ChunkRefs with the time range of ref
SameRange(ref) ==
    {y \in ChunkRefs : y.Start = ref.Start /\ y.End = ref.End}

\* C18: a.Less(b) is true exactly when a.Start < b.Start, or a.Start =
\* b.Start and a.End <= b.End; the result is the same for all values of User,
\* Fingerprint and Checksum of the two references.
C18_LessIsByStartThenEnd ==
    lessRet.called =>
       /\ lessRet.ret <=>
             \/ lessR.Start < lessX.Start
             \/ lessR.Start = lessX.Start /\ lessR.End <= lessX.End
       /\ \A a \in SameRange(lessR), b \in SameRange(lessX) :
             Less(a, b) = lessRet.ret

\* C18 witness: two references with equal Start and End that differ in User,
\* Fingerprint and Checksum, the receiver with the larger fingerprint, were
\* compared and Less returned true.
C18_Witness ==
    /\ lessRet.called /\ lessRet.ret
    /\ lessR.Start = lessX.Start /\ lessR.End = lessX.End
    /\ lessR.User # lessX.User
    /\ lessR.Fingerprint > lessX.Fingerprint
    /\ lessR.Checksum > lessX.Checksum

\* C19: Less is reflexive on equal ranges: when a.Start = b.Start and a.End =
\* b.End both a.Less(b) and b.Less(a) are true, a reference compared with
\* itself included.
C19_LessReflexiveOnEqualRanges ==
    (/\ lessRet.called
     /\ lessR.Start = lessX.Start
     /\ lessR.End = lessX.End) =>
       /\ lessRet.ret
       /\ Less(lessX, lessR)
       /\ Less(lessR, lessR)

\* C19 witness: two different references of one time range were compared and
\* Less returned true.
C19_Witness ==
    /\ lessRet.called /\ lessRet.ret
    /\ lessR # lessX
    /\ lessR.Start = 1 /\ lessX.Start = 1
    /\ lessR.End = MaxTime /\ lessX.End = MaxTime

\* the adjacent elements of seq all satisfy Less
AdjacentLess(seq) == \A i \in 1..(Len(seq) - 1) : Less(seq[i], seq[i + 1])

\* the Start values of seq do not decrease
NonDecreasingStart(seq) ==
    \A i \in 1..(Len(seq) - 1) : seq[i].Start <= seq[i + 1].Start

\* C20: when a.Start < b.Start, a.Less(b) is true and b.Less(a) is false
\* whatever the End values are; so a list in which every adjacent pair
\* satisfies Less has non-decreasing Start values.
C20_LessFollowsStart ==
    lessRet.called =>
       /\ lessR.Start < lessX.Start =>
             lessRet.ret /\ ~Less(lessX, lessR)
       /\ lessX.Start < lessR.Start =>
             ~lessRet.ret /\ Less(lessX, lessR)
       /\ lessRet.ret => lessR.Start <= lessX.Start
       /\ \A y \in ChunkRefs :
             AdjacentLess(<<lessR, lessX, y>>) =>
                NonDecreasingStart(<<lessR, lessX, y>>)

\* C20 witness: the receiver starts earlier and ends later than the
\* argument, and Less returned true.
C20_Witness ==
    /\ lessRet.called /\ lessRet.ret
    /\ lessR.Start < lessX.Start
    /\ lessR.End > lessX.End

(***************************************************************************)
(* The order of the result, checked under SpecChunks                       *)
(***************************************************************************)
\* the input index of the k-th chunk of the returned list
ResultIdx(k) == gret.chunks[k][2]

\* the places of the returned list that hold a chunk standing later in the
\* input than the chunk after it
Inversions ==
    {k \in 1..(Len(gret.chunks) - 1) : ResultIdx(k) > ResultIdx(k + 1)}

\* C21: the returned list is in the order in which the coordinator received
\* the chunks, not in input order: it holds every successful chunk once, and
\* a chunk that is later in the input stands before an earlier one only in
\* calls with maxParallel >= 2 and at least two chunks; with one worker the
\* list is in input order.
C21_OrderIsReceiveOrder ==
    ReturnedAfterDispatch =>
       /\ \A j, k \in 1..Len(gret.chunks) :
             j # k => gret.chunks[j] # gret.chunks[k]
       /\ Inversions # {} => maxParallel >= 2 /\ Len(chunks) >= 2
       /\ maxParallel = 1 => Inversions = {}

\* C21 witness: with two workers and two chunks, both decoded, the second
\* chunk of the input is the first of the returned list.
C21_Witness ==
    /\ ReturnedAfterDispatch
    /\ maxParallel = 2 /\ Len(chunks) = 2
    /\ gret.chunks = <<Decoded(chunks[2]), Decoded(chunks[1])>>

(***************************************************************************)
(* Cancellation during the fan-out, checked under SpecCancel               *)
(***************************************************************************)
\* the fan-out call has returned after the coordinator received the
\* cancellation error from a worker
ReturnedAfterCancel ==
    cpc = "done" /\ FanOut /\ CtxCanceled \in Range(recvd)

\* the place of the last cancellation error in recvd
LastCanceled ==
    CHOOSE k \in 1..Len(recvd) :
        recvd[k] = CtxCanceled /\ \A j \in (k + 1)..Len(recvd) : recvd[j] # CtxCanceled

\* C22 as stated: once a worker's MultiQueries call has returned the
\* cancellation error, DoParallelQueries returns that cancellation error.
C22_ReturnsCancellation ==
    ReturnedAfterCancel => ret = CtxCanceled

\* C22 (amended), the returned error: a fan-out call that received the
\* cancellation error returns a non-nil error, and it returns the cancellation
\* error exactly when no worker's own error was received after it.
C22_CancelIsLastError ==
    ReturnedAfterCancel =>
       /\ ret # Nil
       /\ (ret = CtxCanceled) <=>
             (\A j \in (LastCanceled + 1)..Len(recvd) : recvd[j] = Nil)

\* C22 (amended), nothing is undone: no step, before or after the
\* cancellation, takes back an entry that was yielded or recorded
C22_NothingUndone ==
    /\ \A p \in Pairs : yielded'[p] >= yielded[p]
    /\ Recorded \subseteq Recorded'
    /\ numEntriesSent' >= numEntriesSent

\* C22 (amended): the two parts together
C22_CancelUnlessLaterError ==
    []C22_CancelIsLastError /\ [][C22_NothingUndone]_vars

\* C22 witness: a fan-out call returned the cancellation error after an entry
\* had been yielded to the downstream callback.
C22_Witness ==
    /\ ReturnedAfterCancel
    /\ ret = CtxCanceled
    /\ \E p \in Pairs : yielded[p] = 1 /\ p \in Recorded

(***************************************************************************)
(* Properties of Index.GetChunkRefs, checked under SpecIndex               *)
(***************************************************************************)
\* the powers of two up to the largest count
PowersOfTwo == {2 ^ k : k \in 0..MaxShardCount}

\* C23: GetChunkRefs given a shard whose count is not a power of two, such as
\* index 1 of count 3, returns an error and no result, and no index lookup is
\* executed for it at any moment of the call.
C23_InvalidShardRejectedFirst ==
    (~shard.isNil /\ shard.count \notin PowersOfTwo) =>
       /\ lookups = 0
       /\ ipc # "lookup"
       /\ ipc = "done" => refsRet.err # Nil /\ refsRet.fps = {}

\* C23 witness: the call with shard 1 of 3 on an index holding series has
\* returned.
C23_Witness ==
    /\ shard = [isNil |-> FALSE, index |-> 1, count |-> 3]
    /\ indexSeries # {}
    /\ ipc = "done"
    /\ refsRet.err = ErrInvalidShard

(***************************************************************************)
(* The lock discipline of isSeen, checked under Spec                       *)
(***************************************************************************)
\* the calls between RLock and RUnlock, and between Lock and Unlock
RLockHolders == {c \in Calls : mq[c].pc = "rlocked"}
WLockHolders == {c \in Calls : mq[c].pc = "locked"}

\* C24, the holders: a goroutine inside the exclusive section is alone in
\* the lock, with no reader and no other writer, and the mutex knows exactly
\* the goroutines inside the sections.
C24_WriterIsAlone ==
    /\ Cardinality(WLockHolders) <= 1
    /\ WLockHolders # {} => RLockHolders = {}
    /\ mtx.readers = RLockHolders
    /\ WLockHolders = (IF mtx.writer = 0 THEN {} ELSE {mtx.writer})

\* C24, the accesses: a lookup result reaches a call only in a step that
\* leaves the call inside a section; seenRangeValues changes only in the
\* step in which a call enters the exclusive section and its re-check does
\* not find the pair, and it gains that pair alone; numEntriesSent changes
\* only by one, in a step of the call inside the exclusive section.
C24_AccessUnderLock ==
    /\ \A c \in Calls :
          (mq'[c].seen /\ ~mq[c].seen) => mq'[c].pc \in {"rlocked", "locked"}
    /\ seenRangeValues' # seenRangeValues =>
          \E c \in Calls :
             /\ mq[c].pc = "wantlock" /\ mq'[c].pc = "locked"
             /\ WLockHolders' = {c} /\ RLockHolders' = {}
             /\ CurPair(c) \notin Recorded
             /\ Recorded' = Recorded \cup {CurPair(c)}
    /\ numEntriesSent' # numEntriesSent =>
          /\ numEntriesSent' = numEntriesSent + 1
          /\ \E c \in WLockHolders : mq'[c].pc = "cb" /\ mtx.writer = c

\* C24: seenRangeValues is read only under the shared or the exclusive lock
\* and written, like numEntriesSent, only under the exclusive lock after the
\* re-check; no writer ever holds the lock together with a reader or with
\* another writer.
C24_LockDiscipline ==
    []C24_WriterIsAlone /\ [][C24_AccessUnderLock]_vars

\* C24 witness: one call holds the exclusive lock, having just recorded a
\* pair, while another call waits for the lock on a pair of its own.
C24_Witness ==
    \E c, d \in Calls :
       /\ c # d
       /\ mq[c].pc = "locked" /\ ~mq[c].seen /\ mtx.writer = c
       /\ mq[d].pc = "wantlock"
       /\ CurPair(c) \in Recorded

(***************************************************************************)
(* Concurrent isSeen calls on one pair, checked under Spec                 *)
(***************************************************************************)
\* the isSeen calls on pair p that came to return false: those that have
\* returned, and the one about to return from the exclusive section
FalseReturns(p) ==
    yielded[p] +
    Cardinality({c \in WLockHolders : ~mq[c].seen /\ CurPair(c) = p})

\* the pair of the lookup that call c makes in this step
LookedUp(c) == <<mq'[c].query.HashValue, mq'[c].batch[mq'[c].pos]>>

\* C25, one false: of all isSeen calls on one pair at most one comes to
\* return false, and exactly one has once the pair is recorded.
C25_OneFalsePerPair ==
    \A p \in Pairs :
       /\ FalseReturns(p) <= 1
       /\ p \in Recorded <=> FalseReturns(p) = 1

\* C25, the others: every lookup of isSeen, optimistic or under the
\* exclusive lock, finds the pair seen exactly when it was recorded before,
\* so that every call after the recording returns true.
C25_LaterCallsSeeIt ==
    \A c \in Calls :
       (mq'[c].pc # mq[c].pc /\ mq'[c].pc \in {"rlocked", "locked"}) =>
          (mq'[c].seen <=> LookedUp(c) \in Recorded)

\* C25: among concurrent isSeen calls on one unrecorded pair exactly one
\* returns false and every other one true, also when several pass the
\* optimistic check before any takes the exclusive lock, and every later
\* call returns true.
C25_ExactlyOneReturnsFalse ==
    []C25_OneFalsePerPair /\ [][C25_LaterCallsSeeIt]_vars

\* C25 witness: two workers passed the optimistic check on the same
\* unrecorded pair; one has taken the exclusive lock and recorded the pair,
\* the other still waits for the lock.
C25_Witness ==
    \E c, d \in Calls :
       /\ c # d
       /\ mq[c].gor = "worker" /\ mq[d].gor = "worker"
       /\ mq[c].pc = "locked" /\ ~mq[c].seen
       /\ mq[d].pc = "wantlock" /\ ~mq[d].seen
       /\ CurPair(c) = CurPair(d)

(***************************************************************************)
(* The return of the fan-out, checked under Spec                           *)
(***************************************************************************)
\* DoParallelQueries has returned on the fan-out path
ReturnedFanOut == cpc = "done" /\ FanOut

\* C26, the return: when DoParallelQueries returns on the fan-out path,
\* with an error or without, every worker it dispatched has come back from
\* MultiQueries and its outcome has been received, and no goroutine is
\* inside a callback or holds the deduper's lock.
C26_AllWorkersReported ==
    ReturnedFanOut =>
       /\ Len(mq) > 1
       /\ \A c \in Calls : mq[c].gor = "worker" /\ mq[c].pc = "exited"
       /\ Len(recvd) = Len(mq)
       /\ mtx = [readers |-> {}, writer |-> 0]

\* C26, afterwards: no step after the return invokes the downstream
\* callback, yields an entry or touches the dedup state.
C26_QuietAfterReturn ==
    ReturnedFanOut =>
       /\ mq' = mq
       /\ yielded' = yielded /\ offered' = offered
       /\ seenRangeValues' = seenRangeValues
       /\ numEntriesSent' = numEntriesSent
       /\ mtx' = mtx

\* C26: on the fan-out path DoParallelQueries does not return before every
\* dispatched worker's MultiQueries call has returned and reported its
\* outcome, so nothing is delivered downstream, and the dedup state is not
\* touched, after the return.
C26_ReturnWaitsForWorkers ==
    []C26_AllWorkersReported /\ [][C26_QuietAfterReturn]_vars

\* C26 witness: the call returned nil after its three workers had reported,
\* and entries were yielded to the downstream callback during the call.
C26_Witness ==
    /\ ReturnedFanOut
    /\ ret = Nil
    /\ Len(mq) = 3 /\ Len(recvd) = 3
    /\ \E p \in Pairs : yielded[p] = 1
    /\ numEntriesSent = MaxEntries

(***************************************************************************)
(* Properties of IndexDeduper.Callback, checked under SpecCallback         *)
(***************************************************************************)
\* the Callback calls made so far
CallbackCalls == 1..Len(cbLog)

\* C27: IndexDeduper.Callback calls the downstream callback exactly once for
\* every raw batch it is given, with the same query and a filteringBatch
\* around that same batch, also when every entry of the batch was seen
\* before, and it returns the boolean the downstream callback returned.
C27_OneDownstreamCallPerBatch ==
    /\ \A k \in CallbackCalls :
          /\ cbLog[k].invoked =
                (IF k = Len(cbLog) /\ cbpc = "entered" THEN 0 ELSE 1)
          /\ cbLog[k].invoked = 1 =>
                /\ cbLog[k].given.query = cbLog[k].query
                /\ cbLog[k].given.batch = cbLog[k].batch
          /\ Len(cbLog[k].flags) <= Len(cbLog[k].batch)
    /\ cbRets.n = Len(cbLog) - (IF cbpc = "idle" THEN 0 ELSE 1)
    /\ cbRets.callback = cbRets.downstream

\* C27 witness: the second Callback call was given a batch whose only entry
\* the first call had forwarded; the downstream callback was called with it
\* all the same, was yielded nothing, and returned false, as Callback did.
C27_Witness ==
    /\ Len(cbLog) = 2 /\ cbpc = "idle"
    /\ cbLog[1].query = cbLog[2].query
    /\ cbLog[1].batch = <<"r1">> /\ cbLog[2].batch = <<"r1">>
    /\ cbLog[1].flags = <<TRUE>> /\ cbLog[2].flags = <<FALSE>>
    /\ cbLog[2].invoked = 1
    /\ cbRets = [n |-> 2, downstream |-> FALSE, callback |-> FALSE]

\* the entries the filtered iterators have passed so far: <<call, place>>
PassedEntries ==
    {<<k, i>> \in CallbackCalls \X (1..MaxRaw) : i <= Len(cbLog[k].flags)}

\* entry e was passed before entry f
Earlier(e, f) == e[1] < f[1] \/ (e[1] = f[1] /\ e[2] < f[2])

\* entries e and f have the same hash value and the same range value
SameKey(e, f) ==
    /\ cbLog[e[1]].query.HashValue = cbLog[f[1]].query.HashValue
    /\ cbLog[e[1]].batch[e[2]] = cbLog[f[1]].batch[f[2]]

\* C28: the dedup key is the pair (HashValue of the producing query, range
\* value): an entry is forwarded exactly when no entry passed before it had
\* the same hash value and range value, so that equal range values under
\* different hash values are both forwarded, and equal range values under
\* the same hash value are forwarded once, whatever the table of the
\* queries; the deduper counts the entries forwarded.
C28_KeyIsHashAndRange ==
    /\ \A f \in PassedEntries :
          cbLog[f[1]].flags[f[2]] <=>
             ~\E e \in PassedEntries : Earlier(e, f) /\ SameKey(e, f)
    /\ cbDeduper.numEntriesSent =
          Cardinality({f \in PassedEntries : cbLog[f[1]].flags[f[2]]})

\* C28 witness: the range value r1 came three times: through a query of
\* table t1 with hash value h1, forwarded; through a query of table t2 with
\* the same hash value, filtered out; through a query with hash value h2,
\* forwarded.
C28_Witness ==
    /\ Len(cbLog) = 3
    /\ cbLog[1].query = IndexQuery("t1", "h1") /\ cbLog[1].batch = <<"r1">>
    /\ cbLog[2].query = IndexQuery("t2", "h1") /\ cbLog[2].batch = <<"r1">>
    /\ cbLog[3].query = IndexQuery("t1", "h2") /\ cbLog[3].batch = <<"r1">>
    /\ cbLog[1].flags = <<TRUE>>
    /\ cbLog[2].flags = <<FALSE>>
    /\ cbLog[3].flags = <<TRUE>>
    /\ cbDeduper.numEntriesSent = 2

(***************************************************************************)
(* The shared queue of chunks, checked under SpecChunks                    *)
(***************************************************************************)
\* the chunks the workers have taken from queuedChunks so far
TakenCount == SumOver(invoked, ChunkIdx)

\* the workers that hold a chunk they took
WithChunk == {w \in Workers : workers[w].pc \in {"decode", "send"}}

\* C29, the states: no chunk is held by two workers or taken twice, and a
\* worker has stopped pulling only when the queue is closed and every chunk
\* has been taken from it.
C29_NoChunkTwice ==
    /\ \A v, w \in WithChunk : v # w => workers[v].c # workers[w].c
    /\ \A i \in ChunkIdx : invoked[i] <= 1
    /\ \A w \in Workers :
          workers[w].pc = "exited" =>
             queueClosed /\ TakenCount = Len(chunks)

\* C29, the steps: whichever worker takes from the queue, the chunk it gets
\* is the next chunk of the input, chunks[i] for the i-th take of the call;
\* and a worker leaves its loop only on the closed, empty queue.
C29_TakesInInputOrder ==
    \A w \in Workers :
       /\ (workers[w].pc = "recv" /\ workers'[w].pc = "decode") =>
             /\ TakenCount < Len(chunks)
             /\ workers'[w].c = chunks[TakenCount + 1]
             /\ TakenCount' = TakenCount + 1
       /\ (workers[w].pc = "recv" /\ workers'[w].pc = "exited") =>
             queueClosed /\ TakenCount = Len(chunks)

\* C29: the workers pull from one queue that a single producer fills in
\* input order and then closes: the i-th chunk taken, by whichever worker,
\* is chunks[i], no chunk is taken by two workers, and a worker stops
\* pulling only when the queue is closed and empty.
C29_SharedQueueInOrder ==
    []C29_NoChunkTwice /\ [][C29_TakesInInputOrder]_vars

\* C29 witness: all three chunks were taken and the queue was closed; the
\* first worker has left its loop while the second still decodes the third
\* chunk.
C29_Witness ==
    /\ Len(chunks) = 3 /\ Len(workers) = 2
    /\ queueClosed /\ TakenCount = 3
    /\ workers[1].pc = "exited"
    /\ workers[2].pc = "decode" /\ workers[2].c = chunks[3]

(***************************************************************************)
(* Antisymmetry of ChunkRef.Less, checked under SpecLess                   *)
(***************************************************************************)
\* C30 as stated: there are references a and b with identical Start and
\* differing End for which both a.Less(b) and b.Less(a) are true.
C30_BothWaysOnNestedRanges ==
    lessRet.called =>
       \E a, b \in ChunkRefs :
          /\ a.Start = b.Start /\ a.End # b.End
          /\ Less(a, b) /\ Less(b, a)

\* C30 (amended): Less fails antisymmetry on equal ranges only: a.Less(b)
\* and b.Less(a) are both true exactly when a and b have the same Start and
\* the same End, which different references can have; with identical Start
\* and differing End exactly one of the two is true, that of the reference
\* with the smaller End.
C30_BothWaysOnlyOnEqualRanges ==
    lessRet.called =>
       /\ (lessRet.ret /\ Less(lessX, lessR)) <=>
             (lessR.Start = lessX.Start /\ lessR.End = lessX.End)
       /\ (lessR.Start = lessX.Start /\ lessR.End # lessX.End) =>
             /\ lessRet.ret # Less(lessX, lessR)
             /\ lessRet.ret <=> lessR.End < lessX.End

\* C30 witness: two references that differ in their fingerprint only were
\* compared: Less is true in both directions.
C30_Witness ==
    /\ lessRet.called /\ lessRet.ret
    /\ Less(lessX, lessR)
    /\ lessR.Fingerprint # lessX.Fingerprint
    /\ lessR.Start = lessX.Start /\ lessR.End = lessX.End
    /\ lessR.User = lessX.User /\ lessR.Checksum = lessX.Checksum

(***************************************************************************)
(* The services of cmd/monitor                                             *)
(***************************************************************************)
\* the authors the detector has received that are in the whitelist
WhitelistedReceived == {i \in 1..published : toPublish[i] \in whitelist}

\* the detector was started and nobody has called its stop function
MevRunning == mevRet.called /\ mevRet.err = Nil /\ stoppc = "idle"

\* C31: the MEV block counter is the number of whitelisted authors received,
\* and for as long as the stop function has not been called the detector
\* stands at its select to receive the next author, after the first one
\* as well.
C31_CountsEveryAuthor ==
    /\ mevTotal = Cardinality(WhitelistedReceived)
    /\ MevRunning /\ published < Len(toPublish) => mevpc = "select"

\* C32: a caller of the detector's stop function is never left at its send
\* on stopCh when the detector goroutine has already exited: the send
\* always has a receiver, so stop returns.
C32_StopFindsItsGoroutine ==
    stoppc = "sending" => mevpc # "exited"

\* C33: RunWebsocketClient ends with "Please configure node.host!" exactly
\* when cfg.Host is nil.
C33_ErrorIffHostIsNil ==
    wsRet.called => ((wsRet.outcome = ErrNoHost) <=> nodeHost.isNil)

(***************************************************************************)
(* isBundleIncluded                                                        *)
(***************************************************************************)
\* the offsets at which the bundle stands in the block as a contiguous run,
\* in the same order
RunOffsets ==
    {off \in 0..(Len(blockTxns) - Len(bundleTxns)) :
        SubSeq(blockTxns, off + 1, off + Len(bundleTxns)) = bundleTxns}

\* C34: isBundleIncluded returns true exactly when the bundle occurs in the
\* block as a contiguous run in the same order; it returns false for a
\* bundle longer than the block and true for an empty bundle, whatever the
\* block.
C34_TrueIffContiguousRun ==
    includedRet.called =>
        /\ includedRet.ret <=> (RunOffsets # {})
        /\ Len(bundleTxns) > Len(blockTxns) => ~includedRet.ret
        /\ bundleTxns = <<>> => includedRet.ret

\* a bundle of two transactions found at the end of a longer block that
\* does not start with it
C34_Witness ==
    /\ includedRet.called
    /\ includedRet.ret
    /\ Len(bundleTxns) = 2
    /\ Len(blockTxns) = 3
    /\ RunOffsets = {1}

(***************************************************************************)
(* Termination of DoParallelQueries, checked under Spec                    *)
(***************************************************************************)
\* the worker goroutines that have not yet handed their outcome over
LiveWorkers == {c \in Calls : mq[c].gor = "worker" /\ mq[c].pc # "exited"}

\* the receives the collect loop still has to make (line 59)
ReceivesLeft ==
    IF ci < numQueries
    THEN CeilDiv(numQueries - ci, maxQueriesPerGoroutine)
    ELSE 0

\* the call has returned and every goroutine it started has exited
AllQuiet == cpc = "done" /\ \A c \in Calls : mq[c].pc = "exited"

\* C35: DoParallelQueries cannot get stuck and leaves no goroutine behind:
\* while it collects, the receives it still has to make are exactly the
\* workers that have not yet completed their send, so every send finds its
\* receive and every receive its send; when it has returned every worker
\* has exited, after as many receives as workers were started; and in
\* every state short of that some goroutine can take a step.
C35_TerminatesWithoutLeak ==
    /\ cpc = "collect" => Cardinality(LiveWorkers) = ReceivesLeft
    /\ cpc = "done" => LiveWorkers = {}
    /\ cpc = "done" /\ FanOut =>
          Len(recvd) = CeilDiv(numQueries, maxQueriesPerGoroutine)
    /\ AllQuiet \/ ENABLED QNext

\* C35 witness: a list whose last slice is shorter than the others: three
\* workers were started, three outcomes were received, the call returned and
\* the workers are gone.
C35_Witness ==
    /\ AllQuiet
    /\ numQueries = MaxQueries
    /\ Len(mq) = 3 /\ Len(recvd) = 3
    /\ ReceivesLeft = 0

(***************************************************************************)
(* Termination of GetParallelChunks, checked under SpecChunks              *)
(***************************************************************************)
\* the call was made with a positive maxParallel and its entry check found
\* ctx live
LiveCall == maxParallel >= 1 /\ entryErr = Nil

\* the call has returned, the producer has closed the queue and ended, and
\* every worker has exited
GAllQuiet ==
    /\ gpc = "done"
    /\ producer.pc = "exited" /\ queueClosed
    /\ \A w \in Workers : workers[w].pc = "exited"

\* the goroutines that wait for the coordinator: a worker with an outcome
\* to hand over, or with a chunk in decodeFn, and the producer with a chunk
\* still to queue
NeedCoordinator ==
    \/ \E w \in Workers : workers[w].pc \in {"decode", "send"}
    \/ producer.pc = "send" /\ producer.i <= Len(chunks)

\* C36: a GetParallelChunks call with maxParallel >= 1 and a live ctx cannot
\* get stuck: short of the state where it has returned, the queue is closed
\* and every worker has exited, some goroutine can take a step; and when the
\* call has returned no goroutine is left that waits for the coordinator:
\* every chunk was queued and no worker holds a chunk or an outcome, so
\* what remains is the close of the queue and the workers' exits.
C36_TerminatesWithoutLeak ==
    LiveCall =>
       /\ GAllQuiet \/ ENABLED GNext
       /\ gpc = "done" => ~NeedCoordinator
       /\ gpc = "done" => Len(workers) = min(maxParallel, Len(chunks))

\* C36 witness: three chunks and two workers, one chunk failed; the call
\* has returned, the queue is closed and both workers have exited.
C36_Witness ==
    /\ LiveCall
    /\ GAllQuiet
    /\ Len(chunks) = 3 /\ Len(workers) = 2
    /\ glastErr # Nil
    /\ Len(result) = 2

(***************************************************************************)
(* isSeen and the deduper's lock, checked under Spec                       *)
(***************************************************************************)
\* the calls inside isSeen: under the shared lock, between the two locks,
\* under the exclusive lock
InIsSeen == {c \in Calls : mq[c].pc \in {"rlocked", "wantlock", "locked"}}

\* call c can take its next step inside isSeen
IsSeenStepEnabled(c) ==
    ENABLED (IsSeenRUnlock(c) \/ IsSeenLock(c) \/ IsSeenUnlock(c))

\* C37: concurrent isSeen calls never deadlock. A call that asks for the
\* exclusive lock has released the shared lock, and a call that has left
\* isSeen holds neither lock; so whenever calls are inside isSeen one of
\* them can take its next step, and when no call is inside isSeen the lock
\* is free.
C37_IsSeenNeverDeadlocks ==
    /\ \A c \in Calls :
          mq[c].pc = "wantlock" => c \notin mtx.readers /\ mtx.writer # c
    /\ \A c \in Calls \ InIsSeen : c \notin mtx.readers /\ mtx.writer # c
    /\ InIsSeen # {} => \E c \in InIsSeen : IsSeenStepEnabled(c)
    /\ InIsSeen = {} => mtx = [readers |-> {}, writer |-> 0]

\* C37 witness: two workers ask for the exclusive lock at the same time,
\* both having found the same pair absent under the shared lock, which
\* both have released.
C37_Witness ==
    /\ \E c, d \in Calls :
          /\ c # d
          /\ mq[c].pc = "wantlock" /\ mq[d].pc = "wantlock"
          /\ CurPair(c) = CurPair(d)
    /\ mtx = [readers |-> {}, writer |-> 0]

(***************************************************************************)
(* Less as an order, checked under SpecLess                                *)
(***************************************************************************)
\* C38: Less is a total preorder on (Start, End): of a.Less(b) and
\* b.Less(a) at least one is true, both are true exactly when a and b have
\* the same Start and the same End, and a.Less(b) with b.Less(c) gives
\* a.Less(c).
C38_LessIsTotalPreorder ==
    lessRet.called =>
       /\ lessRet.ret \/ Less(lessX, lessR)
       /\ (lessRet.ret /\ Less(lessX, lessR)) <=>
             <<lessR.Start, lessR.End>> = <<lessX.Start, lessX.End>>
       /\ \A c \in ChunkRefs :
             lessRet.ret /\ Less(lessX, c) => Less(lessR, c)

\* C38 witness: two references of one Start, the receiver with the later
\* End: Less returned false, and it is true the other way round.
C38_Witness ==
    /\ lessRet.called /\ ~lessRet.ret
    /\ Less(lessX, lessR)
    /\ lessR.Start = lessX.Start
    /\ lessR.End > lessX.End

(***************************************************************************)
(* One worker, checked under SpecChunks                                    *)
(***************************************************************************)
\* the decoded chunks of the first n chunks of the input that decodeFn has
\* decoded successfully, in input order
DecodedPrefix(n) ==
    LET ok == SelectSeq(SubSeq(chunks, 1, n), LAMBDA c : outcome[c[2]] = "ok")
    IN  [k \in 1..Len(ok) |-> Decoded(ok[k])]

\* C39: with maxParallel = 1 there is one worker, and it hands each outcome
\* to the coordinator before it takes the next chunk: the chunk it has in
\* hand is the one after the outcomes received so far. So the list built,
\* and the list returned, is the successfully decoded chunks in input
\* order.
C39_OneWorkerKeepsInputOrder ==
    (maxParallel = 1 /\ entryErr = Nil) =>
       /\ Len(workers) <= 1
       /\ \A w \in Workers :
             workers[w].pc \in {"decode", "send"} =>
                /\ gpc \in {"spawn", "collect"}
                /\ workers[w].c = chunks[gi + 1]
                /\ producer.i = gi + 2
       /\ result = DecodedPrefix(gi)
       /\ gpc = "done" => gret.chunks = DecodedPrefix(Len(chunks))

\* C39 witness: one worker, three chunks of which the second failed: the
\* call returned the first and the third, in that order.
C39_Witness ==
    /\ maxParallel = 1 /\ entryErr = Nil
    /\ gpc = "done"
    /\ Len(chunks) = 3
    /\ outcome[2] = "err"
    /\ gret.chunks = <<Decoded(chunks[1]), Decoded(chunks[3])>>

(***************************************************************************)
(* Cancellation after the entry check, checked under SpecChunks            *)
(***************************************************************************)
\* ctx was live at the entry check and has been cancelled since
CanceledDuringCall == entryErr = Nil /\ ctxErr # Nil

\* the chunks of the input that decodeFn decoded successfully
OkChunks == {i \in 1..Len(chunks) : outcome[i] = "ok"}

\* C40: a cancellation of ctx after the entry check does not shorten the
\* call. While outcomes are outstanding the call cannot return; when it
\* has returned, every chunk was handed to decodeFn once and len(chunks)
\* outcomes were received; and every outcome received is in the list or
\* counted as an error, so the returned list holds every chunk that was
\* decoded, those decoded after the cancellation as well as those before.
C40_CancelDoesNotShortenCall ==
    CanceledDuringCall =>
       /\ gpc = "collect" /\ gi < Len(chunks) => ~ENABLED GReturn
       /\ gpc = "done" =>
             /\ gi = Len(chunks)
             /\ \A i \in 1..Len(chunks) : invoked[i] = 1
             /\ Len(gret.chunks) = Cardinality(OkChunks)
             /\ \A i \in OkChunks : Decoded(chunks[i]) \in Range(gret.chunks)
       /\ gpc \in {"collect", "done"} =>
             /\ Len(result) + Len(errsRecvd) = gi
             /\ Range(result) \subseteq {Decoded(chunks[i]) : i \in OkChunks}

\* C40 witness: ctx has been cancelled during the call; the first chunk is
\* in the list already, and decodeFn is running on the third.
C40_Witness ==
    /\ CanceledDuringCall
    /\ gpc = "collect"
    /\ Len(chunks) = 3
    /\ result = <<Decoded(chunks[1])>>
    /\ \E w \in Workers : workers[w].pc = "decode" /\ workers[w].c = chunks[3]

====
